---- MODULE Spec2Model ----
(***************************************************************************)
(* SoapyTCPRemote: the server's connection registry, RPC dispatch, stream  *)
(* lifecycle and pump threads (SoapyTCPServer.cpp), the line codec         *)
(* (SoapyRPC.hpp) and the client driver's framing and readStream           *)
(* (SoapyTCPRemote.cpp).                                                   *)
(***************************************************************************)
EXTENDS Integers, Sequences, FiniteSets, TLC

(* ------------------------------ bounds -------------------------------- *)
\* socket descriptors the server can hand out: 1..MaxFd
MaxFd == 2
\* pthread_create succeeds at most this many times in one run
MaxThreads == 2
\* what the device's getStreamMTU returns (elements per device read)
StreamMTU == 1
\* device reads that deliver samples while two workers may be running
MaxDevReads == 1
\* device reads that deliver samples to a single worker: enough to fill a pipe
\* of StreamMTU * PipeFactor elements while netPump holds one element
DeepReads == 10
\* the byte value the device produces for every sample byte
SampleByte == 1
\* the bytes of the element that the final write puts into the pipe are
\* marked with a value no device sample has
DummyByte == SampleByte + 1
\* channels of a stream in a transfer: 1..MaxChans
MaxChans == 2
\* elements per device read in a transfer: 1..MaxElems
MaxElems == 2

\* a pipe under test has 3..MaxPipeLen bytes of buffer
MaxPipeLen == 5
\* its items have 1..MaxItem bytes
MaxItem == 2
\* one pipewrite or piperead asks for 1..MaxNum items
MaxNum == 2
\* the writes of one run offer at most this many bytes
MaxPipeBytes == 7

\* strings of a record have 0..MaxStr characters, or fill the line buffer
MaxStr == 2
\* records written to one SoapyRPC stream in a run
MaxRecords == 2
\* entries of one string vector
MaxVec == 2

\* streams set up on one client device
MaxStreams == 2

\* characters of $XDG_CONFIG_DIRS
MaxEnv == 3

\* ranges in one sample rate range list, and the largest rate in them
MaxRanges == 2
MaxRate == 2
\* entries of a rate list that are told apart; of a longer list these and
\* the parity of the rest are kept
MaxRates == 7

FDs == 1..MaxFd
TIDs == 1..MaxThreads

(* --------------------------- program constants ------------------------ *)
TCPREMOTE_RPC_LOAD == 0
TCPREMOTE_DATA_SEND == 1
TCPREMOTE_DATA_RECV == 2
TCPREMOTE_GET_HARDWARE_KEY == 3
TCPREMOTE_SETUP_STREAM == 13
TCPREMOTE_CLOSE_STREAM == 14
TCPREMOTE_ACTIVATE_STREAM == 16
TCPREMOTE_DEACTIVATE_STREAM == 17
\* a tag of the enum that handleRPC's switch has no case for
TCPREMOTE_READ_UART == 100
\* used by the sources, declared in no file of src/: the type digit of a log
\* connection, the drop tag, and the separator line
TCPREMOTE_LOG_STREAM == 3
TCPREMOTE_DROP_RPC == 101
TCPREMOTE_RPC_SEP == "<sep>"

SOAPY_SDR_RX == 1
\* data.pid = -1 before pthread_create
PidPlaceholder == -1
\* ConnectionInfo conn; leaves pid without a value: this stands for the
\* indeterminate handle, which names no thread
PidUnset == -2
\* pipe size is ten device reads
PipeFactor == 10
\* stdio block size used by netPump
BUFSIZ == 8192

g_frameSizes == [CS8 |-> 2, CS16 |-> 4, CF32 |-> 8]
FormatNames == {"CS8", "CS16", "CF32"}
FrameSize(fmt) == IF fmt = "CS8" THEN g_frameSizes.CS8
                  ELSE IF fmt = "CS16" THEN g_frameSizes.CS16
                  ELSE g_frameSizes.CF32

Min(a, b) == IF a < b THEN a ELSE b

(* ------------------------------ line codec ---------------------------- *)
\* a line on the wire is a string without its newline
IntRange == (0 - 1) .. (TCPREMOTE_DROP_RPC + 1)
\* the decimal text of each integer, as printf("%d") gives it
Decimal == [n \in IntRange |-> ToString(n)]

\* SoapyRPC::writeInteger: fprintf("%d\n")
writeInteger(i) == ToString(i)

\* SoapyRPC::readString at position i of the pending input: the line, or the
\* empty string when fgets fails (EOF)
readString(req, i) == IF i <= Len(req) THEN req[i] ELSE ""

\* SoapyRPC::readInteger: rv = -1, overwritten only when the line is non-empty
\* and sscanf("%d") converts it
readInteger(req, i) ==
    LET s == readString(req, i) IN
    IF s = "" THEN 0 - 1
    ELSE IF \E n \in IntRange : Decimal[n] = s
         THEN CHOOSE n \in IntRange : Decimal[n] = s
         ELSE 0 - 1

(* ------------------------------ jitter pipe --------------------------- *)
\* newpipe(size): in = out = 0; the buffer's bytes are whatever malloc gave
newpipe(size) ==
    [len |-> size, in |-> 0, out |-> 0, buf |-> [i \in 0..(size - 1) |-> 0]]

PipeUsed(pipe) ==
    LET us == pipe.in - pipe.out IN IF us < 0 THEN us + pipe.len ELSE us

PipeAvail(pipe) == pipe.len - PipeUsed(pipe) - 1

\* pipewrite that fills the room it finds byte by byte, not item by item
pipewriteBytes(src, sz, num, pipe, block) ==
    IF Len(src) = 0 \/ sz = 0 \/ num = 0
    THEN [rv |-> 0 - 1, pipe |-> pipe, wait |-> FALSE]
    ELSE LET av == PipeAvail(pipe) IN
         IF av < sz
         THEN [rv |-> 0 - 1, pipe |-> pipe, wait |-> block]
         ELSE LET by == Min(av, num * sz)
                  nbuf == [i \in 0..(pipe.len - 1) |->
                             LET k == (i - pipe.in + pipe.len) % pipe.len IN
                             IF k < by THEN src[k + 1] ELSE pipe.buf[i]]
              IN [rv |-> by \div sz,
                  pipe |-> [pipe EXCEPT !.buf = nbuf,
                                        !.in = (pipe.in + by) % pipe.len],
                  wait |-> FALSE]

\* pipewrite that counts every byte not held as free, none kept back
pipewriteFull(src, sz, num, pipe, block) ==
    IF Len(src) = 0 \/ sz = 0 \/ num = 0
    THEN [rv |-> 0 - 1, pipe |-> pipe, wait |-> FALSE]
    ELSE LET av == pipe.len - PipeUsed(pipe) IN
         IF av < sz
         THEN [rv |-> 0 - 1, pipe |-> pipe, wait |-> block]
         ELSE LET ft == Min(av \div sz, num)
                  by == ft * sz
                  nbuf == [i \in 0..(pipe.len - 1) |->
                             LET k == (i - pipe.in + pipe.len) % pipe.len IN
                             IF k < by THEN src[k + 1] ELSE pipe.buf[i]]
              IN [rv |-> ft,
                  pipe |-> [pipe EXCEPT !.buf = nbuf,
                                        !.in = (pipe.in + by) % pipe.len],
                  wait |-> FALSE]

\* piperead that steps its tail by items, not by bytes
pipereadItems(sz, num, pipe, block) ==
    IF sz = 0 \/ num = 0
    THEN [rv |-> 0 - 1, data |-> <<>>, pipe |-> pipe, wait |-> FALSE]
    ELSE LET us == PipeUsed(pipe) IN
         IF us < sz
         THEN [rv |-> 0, data |-> <<>>, pipe |-> pipe, wait |-> block]
         ELSE LET nm == Min(us \div sz, num)
                  by == nm * sz
              IN [rv |-> nm,
                  data |-> [k \in 1..by |-> pipe.buf[(pipe.out + k - 1) % pipe.len]],
                  pipe |-> [pipe EXCEPT !.out = (pipe.out + nm) % pipe.len],
                  wait |-> FALSE]

\* pipewrite(src, sz, num, pipe, block): [rv, pipe, wait]; wait = the caller
\* sits in pthread_cond_wait and nothing has been written
pipewrite(src, sz, num, pipe, block) ==
    IF Len(src) = 0 \/ sz = 0 \/ num = 0
    THEN [rv |-> 0 - 1, pipe |-> pipe, wait |-> FALSE]
    ELSE LET av == PipeAvail(pipe) IN
         IF av < sz
         THEN [rv |-> 0 - 1, pipe |-> pipe, wait |-> block]
         ELSE LET ft == Min(av \div sz, num)
                  by == ft * sz
                  nbuf == [i \in 0..(pipe.len - 1) |->
                             LET k == (i - pipe.in + pipe.len) % pipe.len IN
                             IF k < by THEN src[k + 1] ELSE pipe.buf[i]]
              IN [rv |-> ft,
                  pipe |-> [pipe EXCEPT !.buf = nbuf,
                                        !.in = (pipe.in + by) % pipe.len],
                  wait |-> FALSE]

\* piperead(dst, sz, num, pipe, block): [rv, data, pipe, wait]
piperead(sz, num, pipe, block) ==
    IF sz = 0 \/ num = 0
    THEN [rv |-> 0 - 1, data |-> <<>>, pipe |-> pipe, wait |-> FALSE]
    ELSE LET us == PipeUsed(pipe) IN
         IF us < sz
         THEN [rv |-> 0, data |-> <<>>, pipe |-> pipe, wait |-> block]
         ELSE LET nm == Min(us \div sz, num)
                  by == nm * sz
              IN [rv |-> nm,
                  data |-> [k \in 1..by |-> pipe.buf[(pipe.out + k - 1) % pipe.len]],
                  pipe |-> [pipe EXCEPT !.out = (pipe.out + by) % pipe.len],
                  wait |-> FALSE]

(* ------------------------------- state -------------------------------- *)
VARIABLES
    s_connections,  \* the registry: socket id -> ConnectionInfo
    mainPc,         \* main thread: "poll", "join", "spin", "crashed", "exited"
    joining,        \* while mainPc = "join": the RPC socket and the thread joined
    threads,        \* thread id -> the dataPump thread and its netPump helper
    pipes,          \* pipe id (the creating thread's id) -> pipebuf_t
    last,           \* the event handled last: socket, what it was on
                    \* ("listen", "rpc", "log"), lines read, lines written,
                    \* device and registry operations in order
    env,            \* what the environment will still do: device reads that
                    \* deliver samples, pthread_create calls that succeed
    xfer,           \* one RX transfer from device buffers to the client's buffers
    ring,           \* one jitter pipe with the bytes its writes accepted and
                    \* its reads returned, in order
    rpc,            \* one SoapyRPC stream: the characters written to it, the
                    \* read position, the records written and the records read
    client,         \* one client device: its wire and output formats and the
                    \* streams it has set up
    conf            \* one lookup of the client's configuration file

vars == <<s_connections, mainPc, joining, threads, pipes, last, env, xfer, ring, rpc, client, conf>>

NoJoin == [fd |-> 0, tid |-> 0]
\* a heap slot for a pipebuf_t: the struct, and how often it was freed
NoPipe == [pipe |-> newpipe(0), allocs |-> 0, frees |-> 0, uaf |-> FALSE]
EmptyReg == [f \in {} |-> 0]
NoThread == [pc |-> "none", conn |-> 0, orphan |-> FALSE, path |-> "none",
             npc |-> "none", held |-> 0, joined |-> FALSE, werr |-> FALSE,
             why |-> "", stopped |-> FALSE]
NoXfer == [stage |-> "idle", numChans |-> 0, fSize |-> 0, nread |-> 0,
           numElems |-> 0, buffs |-> <<>>, wire |-> <<>>, out |-> <<>>,
           ret |-> 0, soff |-> 0, boff |-> 0]
NoRing == [pipe |-> newpipe(0), sz |-> 0, wrote |-> <<>>, got |-> <<>>,
           mixed |-> FALSE, op |-> "none", num |-> 0, rv |-> 0,
           isz |-> 0, block |-> FALSE, warn |-> FALSE]
NoRpc == [stream |-> <<>>, pos |-> 0, sent |-> <<>>, got |-> <<>>]
NoClient == [fmtwire |-> "", fmtout |-> "", streams |-> <<>>, reads |-> <<>>,
             io |-> [op |-> "none", stage |-> "none"]]
NoConf == [stage |-> "none", xdg |-> FALSE, env |-> <<>>, home |-> FALSE,
           readable |-> {}, file |-> <<>>]

\* createRpc that registers the record before conn.dev is assigned
RpcRecordNoDev(sock) ==
    [kind |-> "rpc", dataIds |-> {}, netPipe |-> 0, direction |-> 0,
     format |-> "", channels |-> 0, stream |-> "uninit", pid |-> PidUnset,
     dev |-> 0]

\* createLog that leaves conn.log null, as createData does
LogRecordAsData(sock) ==
    [kind |-> "data", dataIds |-> {}, netPipe |-> 0, direction |-> 0,
     format |-> "", channels |-> 0, stream |-> "uninit", pid |-> PidUnset,
     dev |-> 0]

\* createRpc: conn.rpc and conn.dev are set, conn.log is null; stream, pid
\* and netPipe are not initialised
RpcRecord(sock) ==
    [kind |-> "rpc", dataIds |-> {}, netPipe |-> 0, direction |-> 0,
     format |-> "", channels |-> 0, stream |-> "uninit", pid |-> PidUnset,
     dev |-> sock]

\* createData: rpc and log null, netSock set; stream, dev, pid and netPipe
\* are not initialised
DataRecord(sock) ==
    [kind |-> "data", dataIds |-> {}, netPipe |-> 0, direction |-> 0,
     format |-> "", channels |-> 0, stream |-> "uninit", pid |-> PidUnset,
     dev |-> 0]

\* createLog: rpc null, log and level set
LogRecord(sock) ==
    [kind |-> "log", dataIds |-> {}, netPipe |-> 0, direction |-> 0,
     format |-> "", channels |-> 0, stream |-> "uninit", pid |-> PidUnset,
     dev |-> 0]

Init ==
    /\ s_connections = EmptyReg
    /\ mainPc = "poll"
    /\ joining = NoJoin
    /\ threads = [t \in TIDs |-> NoThread]
    /\ pipes = [t \in TIDs |-> NoPipe]
    /\ last = [fd |-> 0, on |-> "", req |-> <<>>, out |-> <<>>, ops |-> <<>>]
    /\ env = [reads |-> MaxDevReads, creates |-> MaxThreads]
    /\ xfer = NoXfer
    /\ ring = NoRing
    /\ rpc = NoRpc
    /\ client = NoClient
    /\ conf = NoConf

(* ----------------------- registry helper operations ------------------- *)
Erase(conns, S) == [f \in (DOMAIN conns) \ S |-> conns[f]]

Insert(conns, sock, rec) ==
    [f \in (DOMAIN conns) \cup {sock} |-> IF f = sock THEN rec ELSE conns[f]]

\* the workers whose ConnectionInfo has just been destroyed keep their pointer
Orphan(thr, S) ==
    [t \in DOMAIN thr |->
        IF thr[t].pc \notin {"none", "done"} /\ thr[t].conn \in S
        THEN [thr[t] EXCEPT !.orphan = TRUE] ELSE thr[t]]

\* accept() returns the lowest descriptor that is not open
FreeFds == FDs \ DOMAIN s_connections
NextSock == CHOOSE f \in FreeFds : \A g \in FreeFds : f <= g

(* ------------------------------ handleListen -------------------------- *)
NoLast == [fd |-> 0, on |-> "", req |-> <<>>, out |-> <<>>, ops |-> <<>>]

\* the process has ended (pc = "crashed" or "exited"): its registry, its
\* threads and its heap are gone
Halt(pc) ==
    /\ mainPc' = pc
    /\ s_connections' = EmptyReg
    /\ joining' = NoJoin
    /\ threads' = [t \in TIDs |-> NoThread]
    /\ pipes' = [t \in TIDs |-> NoPipe]

\* the type digit read from a fresh socket selects createRpc, createLog or
\* createData; anything else closes the socket.  ok: Device::make gave a
\* device (createRpc), the level line could be read (createLog)
handleListen(type, ok) ==
    /\ mainPc = "poll"
    /\ FreeFds # {}
    /\ ok \/ type \in {TCPREMOTE_RPC_LOAD, TCPREMOTE_LOG_STREAM}
    /\ LET sock == NextSock IN
       IF type = TCPREMOTE_RPC_LOAD
       THEN \* createRpc: Device::make failed -> reply -1, delete rpc
            /\ s_connections' = IF ok THEN Insert(s_connections, sock, RpcRecord(sock))
                                ELSE s_connections
            /\ last' = [fd |-> sock, on |-> "listen", req |-> <<writeInteger(type)>>,
                        out |-> <<writeInteger(IF ok THEN sock ELSE 0 - 1)>>,
                        ops |-> << <<"make", IF ok THEN sock ELSE 0>> >>]
            /\ UNCHANGED <<mainPc, joining, threads, pipes>>
       ELSE IF type = TCPREMOTE_LOG_STREAM
       THEN \* createLog: fgets failed -> fclose, return -1, main leaves its loop
            /\ last' = [fd |-> sock, on |-> "listen", req |-> <<writeInteger(type)>>,
                        out |-> IF ok THEN <<writeInteger(sock)>> ELSE <<>>,
                        ops |-> <<>>]
            /\ IF ok
               THEN /\ s_connections' = Insert(s_connections, sock, LogRecord(sock))
                    /\ UNCHANGED <<mainPc, joining, threads, pipes>>
               ELSE Halt("exited")
       ELSE IF type = TCPREMOTE_DATA_SEND \/ type = TCPREMOTE_DATA_RECV
       THEN /\ s_connections' = Insert(s_connections, sock, DataRecord(sock))
            /\ last' = [fd |-> sock, on |-> "listen", req |-> <<writeInteger(type)>>,
                        out |-> <<writeInteger(sock)>>, ops |-> <<>>]
            /\ UNCHANGED <<mainPc, joining, threads, pipes>>
       ELSE /\ last' = [fd |-> sock, on |-> "listen", req |-> <<writeInteger(type)>>,
                        out |-> <<>>, ops |-> <<>>]
            /\ UNCHANGED <<s_connections, mainPc, joining, threads, pipes>>
    /\ UNCHANGED <<env, xfer, ring, rpc, client, conf>>

\* POLLERR/POLLHUP on the listen socket, or accept() < 0: handleListen
\* returns -1, main breaks out of its loop, clears the registry and returns
handleListenFail ==
    /\ mainPc = "poll"
    /\ Halt("exited")
    /\ last' = NoLast
    /\ UNCHANGED <<env, xfer, ring, rpc, client, conf>>

\* the accepted peer closes before it sends its type bytes: read() <= 0,
\* close(sock), return -1, and main leaves its loop as above
handleListenNoType ==
    /\ mainPc = "poll"
    /\ FreeFds # {}
    /\ Halt("exited")
    /\ last' = [fd |-> NextSock, on |-> "listen", req |-> <<>>, out |-> <<>>,
                ops |-> <<>>]
    /\ UNCHANGED <<env, xfer, ring, rpc, client, conf>>

\* main: any event on a log socket closes it
closeLog(fd) ==
    /\ mainPc = "poll"
    /\ fd \in DOMAIN s_connections
    /\ s_connections[fd].kind = "log"
    /\ s_connections' = Erase(s_connections, {fd})
    /\ threads' = Orphan(threads, {fd})
    /\ last' = [fd |-> fd, on |-> "log", req |-> <<>>, out |-> <<>>,
                ops |-> << <<"erase", fd>> >>]
    /\ UNCHANGED <<mainPc, joining, pipes, env, xfer, ring, rpc, client, conf>>

(* ------------------------------ RPC requests -------------------------- *)
\* what a handler leaves behind; a handler that ran into undefined behaviour
\* (ubSite) either gets away with it or takes the process down.  made: the
\* number of threads pthread_create started
Commit(conns2, thr2, pc2, join2, fd, req, out, ops, ubSite, made) ==
    \E ub \in (IF ubSite THEN {"benign", "crash"} ELSE {"benign"}) :
        /\ IF ub = "crash"
           THEN Halt("crashed")
           ELSE /\ s_connections' = conns2
                /\ threads' = thr2
                /\ mainPc' = pc2
                /\ joining' = join2
                /\ pipes' = pipes
        /\ last' = [fd |-> fd, on |-> "rpc", req |-> req, out |-> out, ops |-> ops]
        /\ env' = [env EXCEPT !.creates = @ - made]
        /\ xfer' = xfer
        /\ ring' = ring
        /\ UNCHANGED <<rpc, client, conf>>

\* the orders in which an unordered_set can hand out its elements
Orders(S) ==
    {ord \in [1..Cardinality(S) -> S] :
        \A i, j \in 1..Cardinality(S) : i # j => ord[i] # ord[j]}

\* internalCloseStream(conn, dataId) on the registry: an unknown id returns
\* early; otherwise device closeStream, erase, close(dataId), and the id
\* leaves conn.dataIds.  No deactivation, no join.
internalCloseStream(conns, owner, dataId) ==
    IF dataId \notin DOMAIN conns THEN conns
    ELSE LET c1 == Erase(conns, {dataId}) IN
         IF owner \in DOMAIN c1
         THEN [c1 EXCEPT ![owner].dataIds = @ \ {dataId}]
         ELSE c1

\* internalCloseStream calls data.dev->closeStream(data.stream) on fields
\* nothing has set, or destroys the record its caller still uses
CloseIsUB(conns, owner, dataId) ==
    /\ dataId \in DOMAIN conns
    /\ (conns[dataId].stream = "uninit" \/ dataId = owner)

CloseOps(conns, dataId) ==
    IF dataId \in DOMAIN conns
    THEN << <<"closeStream", dataId>>, <<"erase", dataId>> >>
    ELSE <<>>

RECURSIVE CloseAll(_, _, _, _)
\* the body of dropRPC's while loop, for the ids ord[i..k]
CloseAll(conns, owner, ord, i) ==
    IF i > Len(ord) THEN conns
    ELSE CloseAll(internalCloseStream(conns, owner, ord[i]), owner, ord, i + 1)

RECURSIVE CloseAllOps(_, _, _)
CloseAllOps(conns, ord, i) ==
    IF i > Len(ord) THEN <<>>
    ELSE CloseOps(conns, ord[i]) \o CloseAllOps(conns, ord, i + 1)

\* dropRPC(conn, fd): delete conn.rpc; while dataIds is not empty, close
\* *dataIds.begin(); unmake the device; erase fd.  An id that is not in the
\* registry is never taken out of dataIds: the loop does not end.  After the
\* return main reads ci.log through its reference to the erased record.
dropRPC(fd, req, ord) ==
    LET ids == s_connections[fd].dataIds
        missing == {i \in 1..Len(ord) : ord[i] \notin DOMAIN s_connections}
        k == IF missing = {} THEN Len(ord) + 1
             ELSE CHOOSE i \in missing : \A j \in missing : i <= j
        done == SubSeq(ord, 1, k - 1)
        closed == {done[i] : i \in 1..Len(done)}
        spins == missing # {}
        c1 == CloseAll(s_connections, fd, done, 1)
        c2 == IF spins THEN c1 ELSE Erase(c1, {fd})
        gone == (DOMAIN s_connections) \ (DOMAIN c2)
    IN /\ ord \in Orders(ids)
       /\ Commit(c2, Orphan(threads, gone), IF spins THEN "spin" ELSE "poll",
                 NoJoin, fd, req, <<>>,
                 << <<"delete_rpc", fd>> >> \o CloseAllOps(s_connections, done, 1)
                    \o (IF spins THEN <<>>
                        ELSE << <<"unmake", fd>>, <<"erase", fd>> >>),
                 (~spins) \/ (\E d \in closed : CloseIsUB(s_connections, fd, d)), 0)

\* the channel list is one line of numbers separated by spaces
NumChannels(chans) == IF chans = "0 1" THEN 2 ELSE 1

handleGetHardwareKey(fd, req) ==
    Commit(s_connections, threads, "poll", NoJoin, fd, req,
           <<"dummy-key">>, << <<"getHardwareKey", fd>> >>, FALSE, 0)

\* handleSetupStream that records the id in conn.dataIds before it looks up
\* the format
handleSetupStreamEager(fd, req, streamOk) ==
    LET dataId == readInteger(req, 3)
        direction == readInteger(req, 4)
        fmt == readString(req, 5)
        chans == readString(req, 6)
    IN IF dataId \notin DOMAIN s_connections
       THEN Commit(s_connections, threads, "poll", NoJoin, fd, req,
                   <<writeInteger(0 - 1)>>, <<>>, FALSE, 0)
       ELSE IF fmt \notin FormatNames
       THEN Commit([s_connections EXCEPT ![fd].dataIds = @ \cup {dataId}],
                   threads, "poll", NoJoin, fd, req,
                   <<writeInteger(0 - 2)>>, <<>>, FALSE, 0)
       ELSE LET c1 == [s_connections EXCEPT
                          ![dataId].dev = s_connections[fd].dev,
                          ![dataId].direction = direction,
                          ![dataId].format = fmt,
                          ![dataId].channels = NumChannels(chans),
                          ![dataId].stream = IF streamOk THEN "open" ELSE "null"]
                c2 == [c1 EXCEPT ![fd].dataIds = @ \cup {dataId}]
            IN Commit(c2, threads, "poll", NoJoin, fd, req,
                      (IF streamOk THEN <<>> ELSE <<writeInteger(0 - 4)>>)
                         \o <<writeInteger(dataId)>>,
                      << <<"setupStream", dataId>> >>, FALSE, 0)

handleSetupStream(fd, req, streamOk) ==
    LET dataId == readInteger(req, 3)
        direction == readInteger(req, 4)
        fmt == readString(req, 5)
        chans == readString(req, 6)
    IN IF dataId \notin DOMAIN s_connections
       THEN Commit(s_connections, threads, "poll", NoJoin, fd, req,
                   <<writeInteger(0 - 1)>>, <<>>, FALSE, 0)
       ELSE IF fmt \notin FormatNames
       THEN Commit(s_connections, threads, "poll", NoJoin, fd, req,
                   <<writeInteger(0 - 2)>>, <<>>, FALSE, 0)
       ELSE LET c1 == [s_connections EXCEPT
                          ![dataId].dev = s_connections[fd].dev,
                          ![dataId].direction = direction,
                          ![dataId].format = fmt,
                          ![dataId].channels = NumChannels(chans),
                          ![dataId].stream = IF streamOk THEN "open" ELSE "null"]
                c2 == [c1 EXCEPT ![fd].dataIds = @ \cup {dataId}]
            IN Commit(c2, threads, "poll", NoJoin, fd, req,
                      (IF streamOk THEN <<>> ELSE <<writeInteger(0 - 4)>>)
                         \o <<writeInteger(dataId)>>,
                      << <<"setupStream", dataId>> >>, FALSE, 0)

handleCloseStream(fd, req) ==
    LET dataId == readInteger(req, 3)
        c1 == internalCloseStream(s_connections, fd, dataId)
        gone == (DOMAIN s_connections) \ (DOMAIN c1)
    IN Commit(c1, Orphan(threads, gone), "poll", NoJoin, fd, req,
              <<writeInteger(0)>>, CloseOps(s_connections, dataId),
              CloseIsUB(s_connections, fd, dataId), 0)

FreeTids == {t \in TIDs : threads[t].pc = "none"}

\* handleActivateStream that starts the worker and stores no handle
handleActivateStreamUnseeded(fd, req, createOk) ==
    LET dataId == readInteger(req, 3) IN
    IF dataId \notin DOMAIN s_connections
    THEN Commit(s_connections, threads, "poll", NoJoin, fd, req,
                <<writeInteger(0 - 1)>>, <<>>, FALSE, 0)
    ELSE IF createOk /\ env.creates > 0 /\ FreeTids # {}
    THEN LET t == CHOOSE x \in FreeTids : \A y \in FreeTids : x <= y IN
         Commit(s_connections,
                [threads EXCEPT ![t] = [NoThread EXCEPT !.pc = "start",
                                                        !.conn = dataId]],
                "poll", NoJoin, fd, req, <<writeInteger(0)>>,
                << <<"pthread_create", dataId>> >>, FALSE, 1)
    ELSE Commit(s_connections, threads, "poll", NoJoin, fd, req,
                <<writeInteger(0 - 2)>>, <<>>, FALSE, 0)

handleActivateStream(fd, req, createOk) ==
    LET dataId == readInteger(req, 3) IN
    IF dataId \notin DOMAIN s_connections
    THEN Commit(s_connections, threads, "poll", NoJoin, fd, req,
                <<writeInteger(0 - 1)>>, <<>>, FALSE, 0)
    ELSE IF createOk /\ env.creates > 0 /\ FreeTids # {}
    THEN LET t == CHOOSE x \in FreeTids : \A y \in FreeTids : x <= y IN
         Commit([s_connections EXCEPT ![dataId].pid = t],
                [threads EXCEPT ![t] = [NoThread EXCEPT !.pc = "start",
                                                        !.conn = dataId]],
                "poll", NoJoin, fd, req, <<writeInteger(0)>>,
                << <<"pthread_create", dataId>> >>, FALSE, 1)
    ELSE Commit([s_connections EXCEPT ![dataId].pid = PidPlaceholder],
                threads, "poll", NoJoin, fd, req, <<writeInteger(0 - 2)>>,
                <<>>, FALSE, 0)

\* pthread_join on a handle that names no joinable thread is undefined: it
\* returns an error (reply -2) or takes the process down.  stopped notes, for
\* the workers of dataId that have not made their final write, that
\* data.pid = 0 was executed after they were created
handleDeactivateStream(fd, req) ==
    LET dataId == readInteger(req, 3) IN
    IF dataId \notin DOMAIN s_connections
    THEN Commit(s_connections, threads, "poll", NoJoin, fd, req,
                <<writeInteger(0 - 1)>>, <<>>, FALSE, 0)
    ELSE LET pid == s_connections[dataId].pid
             c1 == [s_connections EXCEPT ![dataId].pid = 0]
             th == [t \in TIDs |->
                      IF threads[t].conn = dataId
                         /\ threads[t].pc \in {"start", "loop", "dwrite", "final"}
                      THEN [threads[t] EXCEPT !.stopped = TRUE]
                      ELSE threads[t]]
         IN IF pid \in TIDs /\ ~threads[pid].joined
            THEN Commit(c1, th, "join", [fd |-> fd, tid |-> pid], fd, req,
                        <<>>, << <<"pthread_join", dataId>> >>, FALSE, 0)
            ELSE Commit(c1, th, "poll", NoJoin, fd, req,
                        <<writeInteger(0 - 2)>>, <<>>, TRUE, 0)

\* handleDeactivateStream after pthread_join has returned
joinReturns ==
    /\ mainPc = "join"
    /\ threads[joining.tid].pc = "done"
    /\ threads' = [threads EXCEPT ![joining.tid].joined = TRUE]
    /\ last' = [last EXCEPT !.out = <<writeInteger(0)>>]
    /\ mainPc' = "poll"
    /\ joining' = NoJoin
    /\ UNCHANGED <<s_connections, pipes, env, xfer, ring, rpc, client, conf>>

\* an unknown tag handled like a negative one: the connection is dropped
handleUnknownErase(fd, req) ==
    Commit(Erase(s_connections, {fd}), threads, "poll", NoJoin, fd, req,
           <<writeInteger(0 - 1)>>, <<>>, FALSE, 0)

handleUnknown(fd, req) ==
    Commit(s_connections, threads, "poll", NoJoin, fd, req,
           <<writeInteger(0 - 1000)>>, <<>>, FALSE, 0)

\* the requests whose outcome depends on the device or on pthread_create
NeedsDevice(req) ==
    readInteger(req, 2) \in {TCPREMOTE_SETUP_STREAM, TCPREMOTE_ACTIVATE_STREAM}

\* handleRPC on a ready RPC socket whose pending input is req.  ord is the
\* order in which conn.dataIds hands out its elements; devOk is what the
\* device's setupStream or pthread_create answers, for the requests that ask
handleRPC(fd, req, ord, devOk) ==
    /\ mainPc = "poll"
    /\ fd \in DOMAIN s_connections
    /\ s_connections[fd].kind = "rpc"
    /\ ord \in Orders(s_connections[fd].dataIds)
    /\ devOk \/ NeedsDevice(req)
    /\ LET call == readInteger(req, 2) IN
       IF readString(req, 1) # TCPREMOTE_RPC_SEP THEN dropRPC(fd, req, ord)
       ELSE IF call < 0 THEN dropRPC(fd, req, ord)
       ELSE IF call = TCPREMOTE_DROP_RPC THEN dropRPC(fd, req, ord)
       ELSE IF call = TCPREMOTE_GET_HARDWARE_KEY THEN handleGetHardwareKey(fd, req)
       ELSE IF call = TCPREMOTE_SETUP_STREAM THEN handleSetupStream(fd, req, devOk)
       ELSE IF call = TCPREMOTE_CLOSE_STREAM THEN handleCloseStream(fd, req)
       ELSE IF call = TCPREMOTE_ACTIVATE_STREAM THEN handleActivateStream(fd, req, devOk)
       ELSE IF call = TCPREMOTE_DEACTIVATE_STREAM THEN handleDeactivateStream(fd, req)
       ELSE handleUnknown(fd, req)

\* POLLERR or POLLHUP on an RPC socket
handleRPCHangup(fd, ord) ==
    /\ mainPc = "poll"
    /\ fd \in DOMAIN s_connections
    /\ s_connections[fd].kind = "rpc"
    /\ dropRPC(fd, <<>>, ord)

(* ------------------------------ pump threads -------------------------- *)
Alive == mainPc \notin {"crashed", "exited"}

\* the ConnectionInfo a worker was given a pointer to
Rec(t) == s_connections[threads[t].conn]

Running(t) == threads[t].pc \notin {"none", "done"}

\* what the device's readStream leaves in the channel buffers: buffs[c] holds
\* n frames of fSize bytes
DevBuffs(numChans, n, fSize) ==
    [c \in 1..numChans |-> [i \in 1..(n * fSize) |-> SampleByte]]

\* dataPump's interleave loop: for each element idx, for each channel c, copy
\* fSize bytes from buffs[c] + idx*fSize to the next place of pbuf
Interleave(buffs, nread, numChans, fSize) ==
    [k \in 1..(nread * numChans * fSize) |->
        LET frame == (k - 1) \div fSize
            byte == (k - 1) % fSize
            idx == frame \div numChans
            c == frame % numChans
        IN buffs[c + 1][idx * fSize + byte + 1]]

ElemSize(rec) == FrameSize(rec.format) * rec.channels

\* malloc of a pipe by thread t; the constructor's fields and a fresh heap slot
Alloc(heap, t, size) ==
    [heap EXCEPT ![t] = [pipe |-> newpipe(size), allocs |-> 1, frees |-> 0,
                         uaf |-> FALSE]]

\* an access to the pipe in heap slot p, which leaves it as np
Touch(heap, p, np) ==
    [heap EXCEPT ![p].pipe = np, ![p].uaf = @ \/ (heap[p].frees > 0)]

\* dataPump from its entry to its pump loop
pumpStart(t, actOk, direct) ==
    /\ Alive
    /\ threads[t].pc = "start"
    /\ ~threads[t].orphan
    /\ LET rec == Rec(t)
           conn == threads[t].conn IN
       IF rec.stream # "open"
       THEN \* conn->dev->activateStream(conn->stream) on a null or unset stream
            \E ub \in {"benign", "crash"} :
                IF ub = "crash" THEN Halt("crashed")
                ELSE /\ threads' = [threads EXCEPT ![t].pc = "done", ![t].stopped = FALSE]
                     /\ UNCHANGED <<s_connections, pipes, mainPc, joining>>
       ELSE IF ~actOk
       THEN /\ threads' = [threads EXCEPT ![t].pc = "done", ![t].stopped = FALSE]
            /\ UNCHANGED <<s_connections, pipes, mainPc, joining>>
       ELSE IF rec.channels = 1 /\ direct
       THEN IF rec.direction # SOAPY_SDR_RX
            THEN /\ threads' = [threads EXCEPT ![t].pc = "done", ![t].stopped = FALSE]
                 /\ UNCHANGED <<s_connections, pipes, mainPc, joining>>
            ELSE /\ pipes' = Alloc(pipes, t,
                                   StreamMTU * FrameSize(rec.format) * PipeFactor)
                 /\ s_connections' = [s_connections EXCEPT ![conn].netPipe = t]
                 /\ threads' = [threads EXCEPT ![t].pc = "loop",
                                               ![t].path = "direct",
                                               ![t].npc = "read"]
                 /\ UNCHANGED <<mainPc, joining>>
       ELSE IF rec.direction = SOAPY_SDR_RX
       THEN /\ pipes' = Alloc(pipes, t, StreamMTU * ElemSize(rec) * PipeFactor)
            /\ s_connections' = [s_connections EXCEPT ![conn].netPipe = t]
            /\ threads' = [threads EXCEPT ![t].pc = "loop",
                                          ![t].path = "generic",
                                          ![t].npc = "read"]
            /\ UNCHANGED <<mainPc, joining>>
       ELSE /\ threads' = [threads EXCEPT ![t].pc = "done", ![t].stopped = FALSE]
            /\ UNCHANGED <<s_connections, pipes, mainPc, joining>>
    /\ UNCHANGED <<last, env, xfer, ring, rpc, client, conf>>

\* one turn of the generic pump loop: test conn->pid, readStream, interleave,
\* non-blocking pipewrite.  res is what readStream returns: "overflow",
\* "error", or the number of elements read
pumpGeneric(t, res, nread) ==
    /\ Alive
    /\ threads[t].pc = "loop"
    /\ threads[t].path = "generic"
    /\ ~threads[t].orphan
    /\ LET rec == Rec(t) IN
       IF rec.pid = 0
       THEN /\ threads' = [threads EXCEPT ![t].pc = "final", ![t].why = "stop"]
            /\ UNCHANGED <<pipes, env>>
       ELSE IF res = "overflow"
       THEN UNCHANGED <<threads, pipes, env>>
       ELSE IF res = "error"
       THEN /\ threads' = [threads EXCEPT ![t].pc = "final", ![t].why = res]
            /\ UNCHANGED <<pipes, env>>
       ELSE LET fSize == FrameSize(rec.format)
                pbuf == Interleave(DevBuffs(rec.channels, nread, fSize),
                                   nread, rec.channels, fSize)
                w == pipewrite(pbuf, ElemSize(rec), nread,
                               pipes[rec.netPipe].pipe, FALSE)
            IN /\ env.reads > 0
               /\ env' = [env EXCEPT !.reads = @ - 1]
               /\ pipes' = Touch(pipes, rec.netPipe, w.pipe)
               /\ threads' = [threads EXCEPT ![t].held = nread]
    /\ UNCHANGED <<s_connections, mainPc, joining, last, xfer, ring, rpc, client, conf>>

\* one turn of the direct-buffer pump loop: test conn->pid, acquireReadBuffer,
\* pipewrite with its default block = true, releaseReadBuffer
pumpDirect(t, res, nread) ==
    /\ Alive
    /\ threads[t].pc = "loop"
    /\ threads[t].path = "direct"
    /\ ~threads[t].orphan
    /\ LET rec == Rec(t) IN
       IF rec.pid = 0
       THEN /\ threads' = [threads EXCEPT ![t].pc = "final", ![t].why = "stop"]
            /\ UNCHANGED <<pipes, env>>
       ELSE IF res # "ok"
       THEN /\ threads' = [threads EXCEPT ![t].pc = "final", ![t].why = res]
            /\ UNCHANGED <<pipes, env>>
       ELSE LET fSize == FrameSize(rec.format)
                w == pipewrite(DevBuffs(1, nread, fSize)[1], fSize, nread,
                               pipes[rec.netPipe].pipe, TRUE)
            IN /\ env.reads > 0
               /\ env' = [env EXCEPT !.reads = @ - 1]
               /\ IF w.wait
                  THEN /\ threads' = [threads EXCEPT ![t].pc = "dwrite",
                                                     ![t].held = nread]
                       /\ UNCHANGED pipes
                  ELSE /\ pipes' = Touch(pipes, rec.netPipe, w.pipe)
                       /\ threads' = [threads EXCEPT ![t].held = nread]
    /\ UNCHANGED <<s_connections, mainPc, joining, last, xfer, ring, rpc, client, conf>>

\* the direct path's pipewrite, woken from pthread_cond_wait with room for an item
pumpDirectWake(t) ==
    /\ Alive
    /\ threads[t].pc = "dwrite"
    /\ ~threads[t].orphan
    /\ LET rec == Rec(t)
           fSize == FrameSize(rec.format)
           w == pipewrite(DevBuffs(1, threads[t].held, fSize)[1], fSize,
                          threads[t].held, pipes[rec.netPipe].pipe, TRUE)
       IN /\ ~w.wait
          /\ pipes' = Touch(pipes, rec.netPipe, w.pipe)
          /\ threads' = [threads EXCEPT ![t].pc = "loop"]
    /\ UNCHANGED <<s_connections, mainPc, joining, last, env, xfer, ring, rpc, client, conf>>

\* after the loop (why tells what ended it, until the final write is done):
\* the final write that wakes netPump: pipewrite(pbuf,
\* elemSize, 1, pipe) or pipewrite(".", 1, 1, pipe), both blocking
pumpFinal(t) ==
    /\ Alive
    /\ threads[t].pc = "final"
    /\ ~threads[t].orphan
    /\ LET rec == Rec(t)
           sz == IF threads[t].path = "direct" THEN 1 ELSE ElemSize(rec)
           dummy == [i \in 1..sz |-> DummyByte]
           w == pipewrite(dummy, sz, 1, pipes[rec.netPipe].pipe, TRUE)
       IN /\ ~w.wait
          /\ pipes' = Touch(pipes, rec.netPipe, w.pipe)
          /\ threads' = [threads EXCEPT ![t].pc = "join", ![t].why = "",
                                        ![t].stopped = FALSE]
    /\ UNCHANGED <<s_connections, mainPc, joining, last, env, xfer, ring, rpc, client, conf>>

\* pthread_join(fpid) has returned: free(conn->netPipe), deactivate the
\* device stream, return
pumpExit(t) ==
    /\ Alive
    /\ threads[t].pc = "join"
    /\ threads[t].npc = "done"
    /\ ~threads[t].orphan
    /\ pipes' = [pipes EXCEPT ![Rec(t).netPipe].frees = @ + 1]
    /\ threads' = [threads EXCEPT ![t].pc = "done", ![t].stopped = FALSE]
    /\ UNCHANGED <<s_connections, mainPc, joining, last, env, xfer, ring, rpc, client, conf>>

\* netPump: the blocking piperead returns nrd > 0 items; then the loop
\* condition tests conn->pid
netRead(t) ==
    /\ Alive
    /\ threads[t].npc = "read"
    /\ ~threads[t].orphan
    /\ LET rec == Rec(t)
           elemSize == ElemSize(rec)
           r == piperead(elemSize, BUFSIZ \div elemSize,
                         pipes[rec.netPipe].pipe, TRUE)
       IN /\ ~r.wait
          /\ pipes' = Touch(pipes, rec.netPipe, r.pipe)
          /\ threads' = [threads EXCEPT ![t].npc =
                            IF r.rv > 0 /\ rec.pid # 0 THEN "write" ELSE "done"]
    /\ UNCHANGED <<s_connections, mainPc, joining, last, env, xfer, ring, rpc, client, conf>>

\* netPump: write(conn->netSock, wrbuf, elemSize*nrd) returns; a short count
\* or an error ends the loop.  The call blocks while the client does not read.
netWrite(t, ok) ==
    /\ Alive
    /\ threads[t].npc = "write"
    /\ ~threads[t].orphan
    /\ threads' = [threads EXCEPT ![t].npc = IF ok THEN "read" ELSE "done",
                                  ![t].werr = ~ok]
    /\ UNCHANGED <<s_connections, mainPc, joining, pipes, last, env, xfer, ring, rpc, client, conf>>

\* a worker whose ConnectionInfo was erased under it reads freed memory
orphanFault(t) ==
    /\ Alive
    /\ Running(t)
    /\ threads[t].orphan
    /\ Halt("crashed")
    /\ UNCHANGED <<last, env, xfer, ring, rpc, client, conf>>

\* main registers handleLog and sets the log level to TRACE, so every
\* SoapySDR_log call of a thread runs handleLog in that thread, and handleLog
\* walks s_connections from begin() to end().  netPump logs "netPump: start"
\* before its loop: the workers whose netPump has started have walked the
\* registry, and the keys they visited are those of the registry
handleLog(t) ==
    IF threads[t].npc # "none" /\ ~threads[t].orphan THEN DOMAIN s_connections
    ELSE {}

(* ------------------------------ inputs -------------------------------- *)
Framed(tag, args) == <<TCPREMOTE_RPC_SEP, writeInteger(tag)>> \o args

FormatInputs == {"CS8", "XX"}
Directions == {SOAPY_SDR_RX}

\* SoapyTCPRemote::loadRemoteDriver: after the load lines, the reply line is
\* read as an integer
loadRemoteDriver(reply) == readInteger(reply, 1)

\* the constructor throws when loadRemoteDriver returns a negative status
Constructed(reply) == loadRemoteDriver(reply) >= 0

\* SoapyTCPRemote::getHardwareKey: the lines the client driver writes
getHardwareKey == <<writeInteger(TCPREMOTE_GET_HARDWARE_KEY)>>

setupStream(d, dir, fmt) ==
    Framed(TCPREMOTE_SETUP_STREAM,
           <<writeInteger(d), writeInteger(dir), fmt, "0", "=">>)
closeStream(d) == Framed(TCPREMOTE_CLOSE_STREAM, <<writeInteger(d)>>)
activateStream(d) == Framed(TCPREMOTE_ACTIVATE_STREAM, <<writeInteger(d)>>)
deactivateStream(d) == Framed(TCPREMOTE_DEACTIVATE_STREAM, <<writeInteger(d)>>)

\* the data ids that requests name: the highest descriptor, which at that
\* moment is a data, an RPC or a log socket, or is not open
DataIdInputs == {MaxFd}

\* the pending input of a ready RPC socket: well-formed requests, and input
\* that ends before the sentinel, before the tag or before an integer argument

RpcInputs ==
    {Framed(TCPREMOTE_GET_HARDWARE_KEY, <<>>), Framed(TCPREMOTE_DROP_RPC, <<>>),
     Framed(TCPREMOTE_READ_UART, <<>>), getHardwareKey,
     <<>>, <<TCPREMOTE_RPC_SEP>>,
     Framed(TCPREMOTE_ACTIVATE_STREAM, <<>>)}
    \cup {closeStream(d) : d \in DataIdInputs}
    \cup {activateStream(d) : d \in DataIdInputs}
    \cup {deactivateStream(d) : d \in DataIdInputs}
    \cup {setupStream(d, dir, fmt) : d \in DataIdInputs, dir \in Directions,
                                     fmt \in FormatInputs}

TypeInputs == TCPREMOTE_RPC_LOAD .. (TCPREMOTE_LOG_STREAM + 1)

\* every order of every set of ids
AllOrders == UNION {Orders(S) : S \in SUBSET FDs}

(* -------------------- the main thread, from an empty registry --------- *)
\* the steps of main's poll loop; the workers that activateStream creates
\* are not scheduled in these behaviours
Next ==
    \/ \E type \in TypeInputs, ok \in BOOLEAN : handleListen(type, ok)
    \/ handleListenFail
    \/ handleListenNoType
    \/ \E fd \in FDs : closeLog(fd)
    \/ \E fd \in FDs, req \in RpcInputs, ord \in AllOrders, devOk \in BOOLEAN :
          handleRPC(fd, req, ord, devOk)
    \/ \E fd \in FDs, ord \in AllOrders : handleRPCHangup(fd, ord)

Spec == Init /\ [][Next]_vars

(* -------------------- one stream and its workers ---------------------- *)
\* the registry after a driver load (socket 1), a data connection (socket 2)
\* and setupStream(2, RX, CS8, one channel); the environment either lets
\* MaxThreads workers start and delivers MaxDevReads buffers, or lets one
\* worker start and delivers DeepReads buffers
PumpInit ==
    /\ s_connections =
          (1 :> [RpcRecord(1) EXCEPT !.dataIds = {2}]) @@
          (2 :> [DataRecord(2) EXCEPT !.dev = 1,
                                      !.direction = SOAPY_SDR_RX,
                                      !.format = "CS8",
                                      !.channels = 1,
                                      !.stream = "open"])
    /\ mainPc = "poll"
    /\ joining = NoJoin
    /\ threads = [t \in TIDs |-> NoThread]
    /\ pipes = [t \in TIDs |-> NoPipe]
    /\ last = [fd |-> 1, on |-> "rpc", req |-> setupStream(2, SOAPY_SDR_RX, "CS8"),
               out |-> <<writeInteger(2)>>, ops |-> << <<"setupStream", 2>> >>]
    /\ env \in {[reads |-> MaxDevReads, creates |-> MaxThreads],
                [reads |-> DeepReads, creates |-> 1]}
    /\ xfer = NoXfer
    /\ ring = NoRing
    /\ rpc = NoRpc
    /\ client = NoClient
    /\ conf = NoConf

PumpInputs == {activateStream(2), deactivateStream(2), closeStream(2)}

\* a step of a dataPump thread or of its netPump
WorkerStep(t) ==
    \/ \E actOk \in BOOLEAN, direct \in BOOLEAN : pumpStart(t, actOk, direct)
    \/ \E res \in {"overflow", "error", "ok"}, nread \in 1..StreamMTU :
          pumpGeneric(t, res, nread)
    \/ \E res \in {"overflow", "error", "ok"}, nread \in 1..StreamMTU :
          pumpDirect(t, res, nread)
    \/ pumpDirectWake(t)
    \/ pumpFinal(t)
    \/ pumpExit(t)
    \/ netRead(t)

PumpNext ==
    \/ \E req \in PumpInputs, ord \in AllOrders, devOk \in BOOLEAN :
          handleRPC(1, req, ord, devOk)
    \/ joinReturns
    \/ \E t \in TIDs, actOk \in BOOLEAN, direct \in BOOLEAN :
          pumpStart(t, actOk, direct)
    \/ \E t \in TIDs, res \in {"overflow", "error", "ok"}, nread \in 1..StreamMTU :
          pumpGeneric(t, res, nread)
    \/ \E t \in TIDs, res \in {"overflow", "error", "ok"}, nread \in 1..StreamMTU :
          pumpDirect(t, res, nread)
    \/ \E t \in TIDs : pumpDirectWake(t)
    \/ \E t \in TIDs : pumpFinal(t)
    \/ \E t \in TIDs : pumpExit(t)
    \/ \E t \in TIDs : netRead(t)
    \/ \E t \in TIDs, ok \in BOOLEAN : netWrite(t, ok)
    \/ \E t \in TIDs : orphanFault(t)

PumpSpec == PumpInit /\ [][PumpNext]_vars

\* one worker, and a device that delivers DeepReads buffers
DeepInit == PumpInit /\ env.reads = DeepReads

\* the scheduler runs every thread that can take a step; nothing makes the
\* client read its data socket, so a write to it need not return
FairPump ==
    /\ DeepInit
    /\ [][PumpNext]_vars
    /\ WF_vars(joinReturns)
    /\ \A t \in TIDs : WF_vars(WorkerStep(t))

(* -------------------- one RX transfer, device to caller ---------------- *)
\* the values a sample byte can take
Bytes == {0, SampleByte}

\* SoapyTCPRemote::readStream with fmtout = fmtwire (cnv = memcpy, bSize =
\* fSize), when read() returns the bytes of wire (at most blkSize * numElems).
\* swamp is alloca'd and holds junk beyond the bytes read
readStream(wire, fSize, numChans, numElems, junk) ==
    LET blkSize == fSize * numChans
        got == Min(Len(wire), blkSize * numElems)
        status == got \div fSize
        swamp(k) == IF k < got THEN wire[k + 1] ELSE junk
    IN [ret |-> status,
        out |-> [c \in 1..numChans |->
                   [k \in 1..(status * fSize) |->
                      LET elems == (k - 1) \div fSize
                          b == (k - 1) % fSize
                      IN swamp((elems * numChans + (c - 1)) * fSize + b)]],
        soff |-> status * numChans * fSize,
        boff |-> status * fSize]

\* the device has filled its channel buffers with nread frames each; the
\* caller asks the client driver for numElems >= nread elements
XferInit ==
    /\ s_connections = EmptyReg
    /\ mainPc = "poll"
    /\ joining = NoJoin
    /\ threads = [t \in TIDs |-> NoThread]
    /\ pipes = [t \in TIDs |-> NoPipe]
    /\ last = NoLast
    /\ env = [reads |-> MaxDevReads, creates |-> MaxThreads]
    /\ ring = NoRing
    /\ rpc = NoRpc
    /\ client = NoClient
    /\ conf = NoConf
    /\ \E numChans \in 1..MaxChans, nread \in 1..MaxElems :
         \E numElems \in nread..MaxElems,
            buffs \in [1..numChans -> [1..(nread * g_frameSizes.CS8) -> Bytes]] :
            xfer = [NoXfer EXCEPT !.stage = "device", !.numChans = numChans,
                                  !.fSize = g_frameSizes.CS8, !.nread = nread,
                                  !.numElems = numElems, !.buffs = buffs]

\* dataPump interleaves the nread elements into pbuf; pipe and socket carry
\* them to the client unchanged
xferInterleave ==
    /\ xfer.stage = "device"
    /\ xfer' = [xfer EXCEPT !.stage = "wire",
                            !.wire = Interleave(xfer.buffs, xfer.nread,
                                                xfer.numChans, xfer.fSize)]
    /\ UNCHANGED <<s_connections, mainPc, joining, threads, pipes, last, env, ring, rpc, client, conf>>

\* the client's readStream receives all of it in one read()
xferReadStream(junk) ==
    /\ xfer.stage = "wire"
    /\ LET r == readStream(xfer.wire, xfer.fSize, xfer.numChans,
                           xfer.numElems, junk)
       IN xfer' = [xfer EXCEPT !.stage = "done", !.out = r.out, !.ret = r.ret,
                               !.soff = r.soff, !.boff = r.boff]
    /\ UNCHANGED <<s_connections, mainPc, joining, threads, pipes, last, env, ring, rpc, client, conf>>

XferNext ==
    \/ xferInterleave
    \/ \E junk \in Bytes : xferReadStream(junk)

XferSpec == XferInit /\ [][XferNext]_vars

(* -------------------- one jitter pipe, writer and reader ------------- *)
\* a pipe of len bytes between one writer and one reader that use items of
\* ring.sz bytes; the writer may also write single bytes, as dataPump's
\* direct path does after its loop
PipeInit ==
    /\ s_connections = EmptyReg
    /\ mainPc = "poll"
    /\ joining = NoJoin
    /\ threads = [t \in TIDs |-> NoThread]
    /\ pipes = [t \in TIDs |-> NoPipe]
    /\ last = NoLast
    /\ env = [reads |-> MaxDevReads, creates |-> MaxThreads]
    /\ xfer = NoXfer
    /\ rpc = NoRpc
    /\ client = NoClient
    /\ conf = NoConf
    /\ \E len \in 3..MaxPipeLen, sz \in 1..MaxItem :
          ring = [NoRing EXCEPT !.pipe = newpipe(len), !.sz = sz, !.op = "new"]

\* dataPump logs "overrun network pipe, data loss" when pipewrite returns a
\* negative value
DataLossWarned(rv) == rv < 0

\* the bytes a writer offers: every byte of a run has its own value
RingSrc(n) == [k \in 1..n |-> Len(ring.wrote) + k]

\* a pipewrite call that returns (a blocking call without room waits in
\* pthread_cond_wait and changes nothing); the first rv items are accepted;
\* isz, block and num are the call's arguments, warn what dataPump logs
ringWrite(sz, num, block) ==
    /\ ring.op # "none"
    /\ sz \in {ring.sz, 1}
    /\ Len(ring.wrote) + num * sz <= MaxPipeBytes
    /\ LET src == RingSrc(num * sz)
           w == pipewrite(src, sz, num, ring.pipe, block)
           by == IF w.rv > 0 THEN w.rv * sz ELSE 0
       IN /\ ~w.wait
          /\ ring' = [ring EXCEPT !.pipe = w.pipe,
                                  !.wrote = @ \o SubSeq(src, 1, by),
                                  !.mixed = @ \/ (sz # ring.sz),
                                  !.op = "write", !.num = num, !.rv = w.rv,
                                  !.isz = sz, !.block = block,
                                  !.warn = DataLossWarned(w.rv)]
    /\ UNCHANGED <<s_connections, mainPc, joining, threads, pipes, last, env, xfer,
                   rpc, client, conf>>

\* a piperead call that returns
ringRead(num, block) ==
    /\ ring.op # "none"
    /\ LET r == piperead(ring.sz, num, ring.pipe, block)
       IN /\ ~r.wait
          /\ ring' = [ring EXCEPT !.pipe = r.pipe,
                                  !.got = @ \o r.data,
                                  !.op = "read", !.num = num, !.rv = r.rv,
                                  !.isz = ring.sz, !.block = block,
                                  !.warn = FALSE]
    /\ UNCHANGED <<s_connections, mainPc, joining, threads, pipes, last, env, xfer,
                   rpc, client, conf>>

PipeNext ==
    \/ \E sz \in 1..MaxItem, num \in 1..MaxNum, block \in BOOLEAN :
          ringWrite(sz, num, block)
    \/ \E num \in 1..MaxNum, block \in BOOLEAN : ringRead(num, block)

PipeSpec == PipeInit /\ [][PipeNext]_vars

(* -------------------- the line codec, character by character --------- *)
\* char line[256] in SoapyRPC::readString
LineBuf == 256
NL == "\n"
\* size_t npos, which compares greater than every position
NPos == 0 - 1

\* SoapyRPC::writeString: fprintf("%s\n")
writeString(str) == str \o <<NL>>

DigitChars == <<"0", "1", "2", "3", "4", "5", "6", "7", "8", "9">>

RECURSIVE DecDigits(_)
\* the decimal digits of n >= 0, most significant first
DecDigits(n) ==
    IF n < 10 THEN <<DigitChars[n + 1]>>
    ELSE DecDigits(n \div 10) \o <<DigitChars[(n % 10) + 1]>>

\* SoapyRPC::writeInteger, character by character: fprintf("%d\n")
writeIntegerChars(i) ==
    (IF i < 0 THEN <<"-">> \o DecDigits(0 - i) ELSE DecDigits(i)) \o <<NL>>

\* std::map iterates its keys in ascending order: the keys in use, ascending
KeyOrder == << <<>>, <<"a">>, <<"a", "=">>, <<"b">> >>

RECURSIVE KwLines(_, _)
\* the loop of writeKwargs over the keys KeyOrder[i..]: "name=value\n"
KwLines(args, i) ==
    IF i > Len(KeyOrder) THEN <<>>
    ELSE (IF KeyOrder[i] \in DOMAIN args
          THEN writeString(KeyOrder[i] \o <<"=">> \o args[KeyOrder[i]])
          ELSE <<>>) \o KwLines(args, i + 1)

\* SoapyRPC::writeKwargs: the pairs, then the terminator "="
writeKwargs(args) == KwLines(args, 1) \o writeString(<<"=">>)

RECURSIVE writeStrVector(_)
\* writeStrVector: every element as a string, then an empty string
writeStrVector(list) ==
    IF list = <<>> THEN writeString(<<>>)
    ELSE writeString(Head(list)) \o writeStrVector(Tail(list))

\* fgets(line, n, handle) at position pos: fails at end of file; otherwise
\* the characters up to and including the next newline, n - 1 at most
fgets(stream, pos, n) ==
    IF pos >= Len(stream) THEN [ok |-> FALSE, line |-> <<>>, pos |-> pos]
    ELSE LET rest == SubSeq(stream, pos + 1, Len(stream))
             nls == {k \in 1..Len(rest) : rest[k] = NL}
             upto == IF nls = {} THEN Len(rest)
                     ELSE CHOOSE k \in nls : \A j \in nls : k <= j
             len == Min(upto, n - 1)
         IN [ok |-> TRUE, line |-> SubSeq(rest, 1, len), pos |-> pos + len]

\* SoapyRPC::readString, character by character: line[strlen(line)-1] = 0
\* drops the last character that fgets gave
readStringAt(stream, pos) ==
    LET r == fgets(stream, pos, LineBuf) IN
    IF r.ok THEN [val |-> SubSeq(r.line, 1, Len(r.line) - 1), pos |-> r.pos]
    ELSE [val |-> <<>>, pos |-> pos]

DigitOf(ch) == CHOOSE d \in 0..9 : DigitChars[d + 1] = ch
IsDigit(ch) == \E d \in 0..9 : DigitChars[d + 1] = ch

RECURSIVE ScanDigits(_, _, _)
\* sscanf("%d") after the sign: the value of the leading digits of str[i..]
ScanDigits(str, i, acc) ==
    IF i > Len(str) \/ ~IsDigit(str[i]) THEN acc
    ELSE ScanDigits(str, i + 1, acc * 10 + DigitOf(str[i]))

\* SoapyRPC::readInteger, character by character: rv = -1 unless the line is
\* not empty and sscanf converts a number
readIntegerAt(stream, pos) ==
    LET r == readStringAt(stream, pos)
        str == r.val
        neg == Len(str) > 0 /\ str[1] = "-"
        first == IF neg THEN 2 ELSE 1
    IN [val |-> IF Len(str) >= first /\ IsDigit(str[first])
                THEN (IF neg THEN 0 - ScanDigits(str, first, 0)
                      ELSE ScanDigits(str, first, 0))
                ELSE 0 - 1,
        pos |-> r.pos]

\* std::string::find(ch): the first position (from 0) of ch, or npos
Find(str, ch) ==
    LET at == {k \in 1..Len(str) : str[k] = ch} IN
    IF at = {} THEN NPos ELSE (CHOOSE k \in at : \A j \in at : k <= j) - 1

\* args[name] = value
Assign(args, name, value) ==
    [k \in (DOMAIN args) \cup {name} |-> IF k = name THEN value ELSE args[k]]

RECURSIVE readKwargsAt(_, _, _)
\* SoapyRPC::readKwargs: a line shorter than two characters ends the list; a
\* line with '=' at position 0 is ignored; p > 0 also holds for npos, and
\* then substr(0, npos) and substr(npos + 1) are both the whole line
readKwargsAt(stream, pos, args) ==
    LET r == readStringAt(stream, pos)
        nv == r.val
        p == Find(nv, "=")
    IN IF Len(nv) < 2 THEN [val |-> args, pos |-> r.pos]
       ELSE IF p = NPos THEN readKwargsAt(stream, r.pos, Assign(args, nv, nv))
       ELSE IF p > 0
       THEN readKwargsAt(stream, r.pos,
                         Assign(args, SubSeq(nv, 1, p), SubSeq(nv, p + 2, Len(nv))))
       ELSE readKwargsAt(stream, r.pos, args)

RECURSIVE readStrVectorAt(_, _, _)
\* SoapyRPC::readStrVector: an empty string ends the list
readStrVectorAt(stream, pos, list) ==
    LET r == readStringAt(stream, pos) IN
    IF Len(r.val) = 0 THEN [val |-> list, pos |-> r.pos]
    ELSE readStrVectorAt(stream, r.pos, Append(list, r.val))

\* the integers, strings, maps and string vectors that are written
IntSamples == {0 - 2147483647, 0 - 1, 0, 9, 10, 2147483647}
Fill(n) == [k \in 1..n |-> "a"]
StrSamples == {Fill(n) : n \in 0..MaxStr} \cup {Fill(LineBuf - 2), Fill(LineBuf - 1)}
ShortStrs == {Fill(n) : n \in 0..MaxStr}
KeySamples == {KeyOrder[i] : i \in 1..Len(KeyOrder)}
KwSamples == UNION {[K -> {Fill(0), Fill(1)}] : K \in SUBSET KeySamples}
VecSamples == UNION {[1..n -> ShortStrs] : n \in 0..MaxVec}

RecordSamples ==
    {[type |-> "int", val |-> v] : v \in IntSamples}
    \cup {[type |-> "str", val |-> v] : v \in StrSamples}
    \cup {[type |-> "kwargs", val |-> v] : v \in KwSamples}
    \cup {[type |-> "strvector", val |-> v] : v \in VecSamples}

Encode(rec) ==
    IF rec.type = "int" THEN writeIntegerChars(rec.val)
    ELSE IF rec.type = "str" THEN writeString(rec.val)
    ELSE IF rec.type = "kwargs" THEN writeKwargs(rec.val)
    ELSE writeStrVector(rec.val)

Decode(type, stream, pos) ==
    IF type = "int" THEN readIntegerAt(stream, pos)
    ELSE IF type = "str" THEN readStringAt(stream, pos)
    ELSE IF type = "kwargs" THEN readKwargsAt(stream, pos, <<>>)
    ELSE readStrVectorAt(stream, pos, <<>>)

CodecInit ==
    /\ s_connections = EmptyReg
    /\ mainPc = "poll"
    /\ joining = NoJoin
    /\ threads = [t \in TIDs |-> NoThread]
    /\ pipes = [t \in TIDs |-> NoPipe]
    /\ last = NoLast
    /\ env = [reads |-> MaxDevReads, creates |-> MaxThreads]
    /\ xfer = NoXfer
    /\ ring = NoRing
    /\ rpc = NoRpc
    /\ client = NoClient
    /\ conf = NoConf

\* one end writes a record; sent keeps the value and where its lines end
rpcWrite(rec) ==
    /\ Len(rpc.sent) < MaxRecords
    /\ rpc.got = <<>>
    /\ rpc' = [rpc EXCEPT !.stream = @ \o Encode(rec),
                          !.sent = Append(@, [type |-> rec.type, val |-> rec.val,
                                              end |-> Len(rpc.stream) + Len(Encode(rec))])]
    /\ UNCHANGED <<s_connections, mainPc, joining, threads, pipes, last, env, xfer,
                   ring, client, conf>>

\* the other end reads the next record with the reader of its type; got keeps
\* the value and the positions where the read began and ended
rpcRead ==
    /\ Len(rpc.got) < Len(rpc.sent)
    /\ LET r == Decode(rpc.sent[Len(rpc.got) + 1].type, rpc.stream, rpc.pos)
       IN rpc' = [rpc EXCEPT !.pos = r.pos,
                             !.got = Append(@, [val |-> r.val, from |-> rpc.pos,
                                                to |-> r.pos])]
    /\ UNCHANGED <<s_connections, mainPc, joining, threads, pipes, last, env, xfer,
                   ring, client, conf>>

CodecNext ==
    \/ \E rec \in RecordSamples : rpcWrite(rec)
    \/ rpcRead

CodecSpec == CodecInit /\ [][CodecNext]_vars

(* -------------------- the client's stream formats --------------------- *)
ClientFormats == FormatNames \cup {"XX"}

ClientInit ==
    /\ s_connections = EmptyReg
    /\ mainPc = "poll"
    /\ joining = NoJoin
    /\ threads = [t \in TIDs |-> NoThread]
    /\ pipes = [t \in TIDs |-> NoPipe]
    /\ last = NoLast
    /\ env = [reads |-> MaxDevReads, creates |-> MaxThreads]
    /\ xfer = NoXfer
    /\ ring = NoRing
    /\ rpc = NoRpc
    /\ client = NoClient
    /\ conf = NoConf

\* SoapyTCPRemote::setupStream: unknown formats return before anything is
\* assigned; then fmtwire and fmtout of the device object are assigned; the
\* data connection (res = "noconnect") or the server (res = "refused") may
\* still fail, and then no stream is returned. A returned stream keeps fSize
\* and numChans; wire and out note which formats this call chose.
clientSetupStream(format, fmtnat, numChans, res) ==
    /\ Len(client.streams) < MaxStreams
    /\ IF format \notin FormatNames \/ fmtnat \notin FormatNames
       THEN client' = client
       ELSE LET wire == IF FrameSize(fmtnat) < FrameSize(format)
                        THEN fmtnat ELSE format
                rv == [fSize |-> FrameSize(wire), numChans |-> numChans,
                       wire |-> wire, out |-> format]
            IN client' = [client EXCEPT
                   !.fmtwire = wire,
                   !.fmtout = format,
                   !.streams = IF res = "ok" THEN Append(@, rv) ELSE @]
    /\ UNCHANGED <<s_connections, mainPc, joining, threads, pipes, last, env, xfer,
                   ring, rpc, conf>>

\* SoapyTCPRemote::readStream on stream i: the element size on the wire is
\* the stream's fSize; the output element size and the conversion come from
\* fmtout and fmtwire of the device object
clientReadStream(i) ==
    /\ i \in 1..Len(client.streams)
    /\ LET stream == client.streams[i]
           differ == client.fmtout # client.fmtwire
       IN client' = [client EXCEPT !.reads =
              <<[stream |-> i, fSize |-> stream.fSize,
                 bSize |-> IF differ THEN FrameSize(client.fmtout)
                           ELSE stream.fSize,
                 cnv |-> IF differ THEN "convertCS16toCF32" ELSE "memcpy"]>>]
    /\ UNCHANGED <<s_connections, mainPc, joining, threads, pipes, last, env, xfer,
                   ring, rpc, conf>>

ClientNext ==
    \/ \E format \in ClientFormats, fmtnat \in ClientFormats, numChans \in 1..MaxChans,
          res \in {"ok", "noconnect", "refused"} :
          clientSetupStream(format, fmtnat, numChans, res)
    \/ \E i \in 1..MaxStreams : clientReadStream(i)

ClientSpec == ClientInit /\ [][ClientNext]_vars

(* -------------------- the client's configuration file ----------------- *)
\* a path is a sequence of characters and of these constant pieces
ConfName == "/SoapyTCPRemote.conf"
EtcXdgConf == <<"/etc/xdg", ConfName>>
HomeConf == <<"$HOME", "/.config", ConfName>>

\* std::string::find(ch, pos): the first position >= pos of ch, or npos
FindFrom(str, ch, pos) ==
    LET at == {k \in (pos + 1)..Len(str) : str[k] = ch} IN
    IF at = {} THEN NPos ELSE (CHOOSE k \in at : \A j \in at : k <= j) - 1

\* std::string::substr(pos, n), n = npos - pos meaning "to the end"
Substr(str, pos, n) ==
    IF n < 0 \/ pos + n > Len(str) THEN SubSeq(str, pos + 1, Len(str))
    ELSE SubSeq(str, pos + 1, pos + n)

RECURSIVE XdgLoop(_, _, _)
\* the do-while of getConfFile with the nxt of the enclosing block: the nxt
\* that find() assigns is a new variable declared inside the loop body, so
\* pos and the loop condition always see the enclosing nxt
XdgLoop(envStr, nxt, readable) ==
    LET pos == nxt + 1
        inner == FindFrom(envStr, ":", pos)
        tst == Substr(envStr, pos, IF inner = NPos THEN NPos ELSE inner - pos)
                   \o <<ConfName>>
    IN IF tst \in readable THEN [done |-> TRUE, tst |-> tst]
       ELSE IF nxt # NPos THEN XdgLoop(envStr, nxt, readable)
       ELSE [done |-> FALSE, tst |-> tst]

confFile(c) ==
    LET x == IF c.xdg THEN XdgLoop(c.env, NPos, c.readable)
             ELSE [done |-> FALSE, tst |-> <<>>]
    IN IF x.done THEN x.tst
       ELSE IF EtcXdgConf \in c.readable THEN EtcXdgConf
       ELSE IF c.home /\ HomeConf \in c.readable THEN HomeConf
       ELSE <<>>

EnvChars == {"a", "b", ":"}
EnvSamples == UNION {[1..n -> EnvChars] : n \in 0..MaxEnv}
ConfFiles == {<<"a", ConfName>>, <<"b", ConfName>>, <<ConfName>>, EtcXdgConf, HomeConf}

\* the environment and the readable files the process starts with
ConfInit ==
    /\ s_connections = EmptyReg
    /\ mainPc = "poll"
    /\ joining = NoJoin
    /\ threads = [t \in TIDs |-> NoThread]
    /\ pipes = [t \in TIDs |-> NoPipe]
    /\ last = NoLast
    /\ env = [reads |-> MaxDevReads, creates |-> MaxThreads]
    /\ xfer = NoXfer
    /\ ring = NoRing
    /\ rpc = NoRpc
    /\ client = NoClient
    /\ \E xdg \in BOOLEAN, e \in EnvSamples, home \in BOOLEAN,
          readable \in SUBSET ConfFiles :
          /\ xdg \/ e = <<>>
          /\ home \/ HomeConf \notin readable
          /\ conf = [NoConf EXCEPT !.stage = "start", !.xdg = xdg, !.env = e,
                                   !.home = home, !.readable = readable]

getConfFile ==
    /\ conf.stage = "start"
    /\ conf' = [conf EXCEPT !.stage = "done", !.file = confFile(conf)]
    /\ UNCHANGED <<s_connections, mainPc, joining, threads, pipes, last, env, xfer,
                   ring, rpc, client>>

ConfNext == getConfFile

ConfSpec == ConfInit /\ [][ConfNext]_vars

(* -------------------- the client's stream and rate calls -------------- *)
\* sizeof(int16_t) and sizeof(float)
Int16Size == 2
FloatSize == 4

\* the bytes a copy of one frame reads (offsets in the received block) and
\* writes (offsets in the caller's channel buffer)
memcpy(dst, src, cnt) ==
    [rd |-> src..(src + cnt - 1), wr |-> dst..(dst + cnt - 1)]

\* convertCS16toCF32(dst, src, cnt): cnt is ignored; reads cs16[0] and
\* cs16[1], writes cf32[0] and cf32[1]
convertCS16toCF32(dst, src, cnt) ==
    [rd |-> src..(src + 2 * Int16Size - 1), wr |-> dst..(dst + 2 * FloatSize - 1)]

\* the loop of SoapyTCPRemote::readStream over status frames counted by
\* status /= fSize: for each of them and each channel one cnv call at soff and
\* boff; soff advances by fSize per call, boff by bSize per turn
readStreamFrames(fmtwire, fmtout, numChans, status) ==
    LET fSize == FrameSize(fmtwire)
        bSize == IF fmtout # fmtwire THEN FrameSize(fmtout) ELSE fSize
    IN [k \in 1..(status * numChans) |->
          LET soff == (k - 1) * fSize
              boff == ((k - 1) \div numChans) * bSize
              a == IF fmtout # fmtwire THEN convertCS16toCF32(boff, soff, fSize)
                   ELSE memcpy(boff, soff, fSize)
          IN [chan |-> ((k - 1) % numChans) + 1, soff |-> soff, boff |-> boff,
              rd |-> a.rd, wr |-> a.wr]]

\* the caller's channel buffers for writeStream: every byte has its own value
TxBuffs(numChans, numElems, fSize) ==
    [c \in 1..numChans |->
        [k \in 1..(numElems * fSize) |-> (c - 1) * numElems * fSize + k]]

RECURSIVE writeStreamLoop(_, _, _, _, _)
\* the while loop of SoapyTCPRemote::writeStream.  st holds elems, noff, boff,
\* the memory from nbuf on (mem, the first bufSize bytes are nbuf) and the
\* bytes written to the socket.  noff is not set back to 0 after an element
writeStreamLoop(buffs, fSize, numChans, numElems, st) ==
    IF st.elems >= numElems THEN st
    ELSE LET bufSize == fSize * numChans
             mem2 == [j \in DOMAIN st.mem |->
                        IF j >= st.noff /\ j < st.noff + bufSize
                        THEN buffs[((j - st.noff) \div fSize) + 1]
                                  [st.boff + ((j - st.noff) % fSize) + 1]
                        ELSE st.mem[j]]
         IN writeStreamLoop(buffs, fSize, numChans, numElems,
               [elems |-> st.elems + 1, noff |-> st.noff + bufSize,
                boff |-> st.boff + fSize, mem |-> mem2,
                sent |-> st.sent \o [j \in 1..bufSize |-> mem2[j - 1]]])

\* SoapyTCPRemote::writeStream on a running stream, every write() complete
writeStream(buffs, fSize, numChans, numElems) ==
    writeStreamLoop(buffs, fSize, numChans, numElems,
        [elems |-> 0, noff |-> 0, boff |-> 0,
         mem |-> [j \in 0..(numElems * fSize * numChans - 1) |-> 0],
         sent |-> <<>>])

\* SoapyTCPRemote::getSampleRateRange: triplets beg, end, step are read until
\* one has step < 0
RECURSIVE getSampleRateRange(_)
getSampleRateRange(reply) ==
    IF reply = <<>> \/ Head(reply)[3] < 0 THEN <<>>
    ELSE <<Head(reply)>> \o getSampleRateRange(Tail(reply))

\* handleGetSampleRateRange: the device's ranges, then 0, 0, -1
handleGetSampleRateRange(list) == list \o << <<0, 0, 0 - 1>> >>

RateRanges == {<<lo, hi, step>> : lo \in 0..MaxRate, hi \in 0..MaxRate, step \in 0..1}
RangeLists == UNION {[1..n -> RateRanges] : n \in 0..MaxRanges}

\* the calls that are made, each with its arguments
IoCases ==
    {[op |-> "conv", stage |-> "start", fmtwire |-> w, fmtout |-> o,
      numChans |-> n, status |-> k, frames |-> <<>>] :
        w \in FormatNames, o \in FormatNames, n \in 1..MaxChans, k \in 1..MaxElems}
    \cup {[op |-> "write", stage |-> "start", fSize |-> FrameSize(f), numChans |-> n,
           numElems |-> k, sent |-> <<>>, ret |-> 0, noff |-> 0] :
        f \in FormatNames, n \in 1..MaxChans, k \in 1..MaxElems}
    \cup {[op |-> "seg", stage |-> "start", fSize |-> g_frameSizes.CS8,
           numChans |-> n, numElems |-> MaxElems,
           wire |-> [k \in 1..(MaxElems * n * g_frameSizes.CS8) |-> k],
           pos |-> 0, out |-> [c \in 1..n |-> <<>>]] : n \in 1..MaxChans}
    \cup {[op |-> "rates", stage |-> "start", reply |-> handleGetSampleRateRange(l),
           list |-> <<>>, idx |-> 0, f |-> 0, rates |-> <<>>, odd |-> FALSE] :
        l \in RangeLists}

IoInit ==
    /\ s_connections = EmptyReg
    /\ mainPc = "poll"
    /\ joining = NoJoin
    /\ threads = [t \in TIDs |-> NoThread]
    /\ pipes = [t \in TIDs |-> NoPipe]
    /\ last = NoLast
    /\ env = [reads |-> MaxDevReads, creates |-> MaxThreads]
    /\ xfer = NoXfer
    /\ ring = NoRing
    /\ rpc = NoRpc
    /\ conf = NoConf
    /\ \E io \in IoCases :
          /\ io.op = "conv" => FrameSize(io.fmtwire) < FrameSize(io.fmtout)
          /\ client = [NoClient EXCEPT !.io = io]

\* readStream with fmtout # fmtwire, after a read() of status frames
ioReadStreamConvert ==
    /\ client.io.op = "conv" /\ client.io.stage = "start"
    /\ client' = [client EXCEPT
          !.io.stage = "done",
          !.io.frames = readStreamFrames(client.io.fmtwire, client.io.fmtout,
                                         client.io.numChans, client.io.status)]
    /\ UNCHANGED <<s_connections, mainPc, joining, threads, pipes, last, env, xfer,
                   ring, rpc, conf>>

\* writeStream; a store beyond the alloca'd nbuf is undefined: the call goes
\* on, or the process is taken down
ioWriteStream(ub) ==
    /\ client.io.op = "write" /\ client.io.stage = "start"
    /\ LET io == client.io
           st == writeStream(TxBuffs(io.numChans, io.numElems, io.fSize),
                             io.fSize, io.numChans, io.numElems)
       IN IF ub = "crash" /\ st.noff > io.fSize * io.numChans
          THEN client' = [client EXCEPT !.io.stage = "crashed", !.io.noff = st.noff]
          ELSE client' = [client EXCEPT !.io.stage = "done", !.io.sent = st.sent,
                                        !.io.ret = st.elems, !.io.noff = st.noff]
    /\ UNCHANGED <<s_connections, mainPc, joining, threads, pipes, last, env, xfer,
                   ring, rpc, conf>>

\* one readStream call whose read() returns the next n bytes of the socket
ioReadStreamSegment(n) ==
    /\ client.io.op = "seg"
    /\ LET io == client.io
           r == readStream(SubSeq(io.wire, io.pos + 1, io.pos + n), io.fSize,
                           io.numChans, io.numElems, 0)
       IN /\ n <= Min(Len(io.wire) - io.pos, io.fSize * io.numChans * io.numElems)
          /\ client' = [client EXCEPT
                !.io.stage = IF io.pos + n = Len(io.wire) THEN "done" ELSE "more",
                !.io.pos = @ + n,
                !.io.out = [c \in 1..io.numChans |-> @[c] \o r.out[c]]]
    /\ UNCHANGED <<s_connections, mainPc, joining, threads, pipes, last, env, xfer,
                   ring, rpc, conf>>

\* listSampleRates: the call of getSampleRateRange, then the loops entered
ioListSampleRates ==
    /\ client.io.op = "rates" /\ client.io.stage = "start"
    /\ LET list == getSampleRateRange(client.io.reply) IN
       client' = [client EXCEPT
          !.io.list = list,
          !.io.idx = 1,
          !.io.f = IF list = <<>> THEN 0 ELSE list[1][1],
          !.io.stage = IF list = <<>> THEN "done" ELSE "loop"]
    /\ UNCHANGED <<s_connections, mainPc, joining, threads, pipes, last, env, xfer,
                   ring, rpc, conf>>

\* listSampleRates: one test of f <= r.maximum(): push_back and f += step, or
\* on to the next range, or return
ioRatesStep ==
    /\ client.io.op = "rates" /\ client.io.stage = "loop"
    /\ LET io == client.io
           r == io.list[io.idx]
       IN IF io.f <= r[2]
          THEN client' = [client EXCEPT
                  !.io.rates = IF Len(@) < MaxRates THEN Append(@, io.f) ELSE @,
                  !.io.odd = IF Len(io.rates) < MaxRates THEN @ ELSE ~@,
                  !.io.f = @ + r[3]]
          ELSE IF io.idx < Len(io.list)
          THEN client' = [client EXCEPT !.io.idx = @ + 1,
                                        !.io.f = io.list[io.idx + 1][1]]
          ELSE client' = [client EXCEPT !.io.stage = "done"]
    /\ UNCHANGED <<s_connections, mainPc, joining, threads, pipes, last, env, xfer,
                   ring, rpc, conf>>

IoNext ==
    \/ ioReadStreamConvert
    \/ \E ub \in {"benign", "crash"} : ioWriteStream(ub)
    \/ \E n \in 1..(MaxElems * MaxChans * g_frameSizes.CS8) : ioReadStreamSegment(n)
    \/ ioListSampleRates
    \/ ioRatesStep

\* a client call that can take a step takes it
IoSpec == IoInit /\ [][IoNext]_vars /\ WF_vars(IoNext)

(* ------------------------------ properties ---------------------------- *)
\* the last event was a drop of an RPC connection
Dropped(l) == l.on = "rpc" /\ l.ops # <<>> /\ l.ops[1][1] = "delete_rpc"

\* the last event was a ready RPC socket whose first line was not the sentinel
Desynced(l) ==
    l.on = "rpc" /\ l.req # <<>> /\ readString(l.req, 1) # TCPREMOTE_RPC_SEP

\* the last event was a dispatched request with this tag
Dispatched(l, tag) ==
    /\ l.on = "rpc"
    /\ readString(l.req, 1) = TCPREMOTE_RPC_SEP
    /\ readInteger(l.req, 2) = tag

\* the workers created for data connection d that have not returned
PumpsOn(d) ==
    {t \in TIDs : threads[t].conn = d /\ Running(t) /\ ~threads[t].orphan}

\* C1: whenever a data connection record is removed from the registry (by
\* closeStream or by a drop of its RPC connection), no dataPump or netPump
\* bound to that record is still running: no thread that has not returned
\* holds a pointer to an erased record.
C1_NoWorkerOnErasedRecord ==
    \A t \in TIDs : Running(t) => ~threads[t].orphan

\* C2: every deactivateStream on an activated RX stream is eventually
\* answered: once the main thread waits in pthread_join, the join returns.
C2_DeactivateAnswered == (mainPc = "join") ~> (mainPc # "join")

\* C3: after the reply 0 to deactivateStream(dataId), the dataPump and the
\* netPump of that connection have both terminated, and every jitter pipe
\* that was created has been freed exactly once and was not used after its
\* free; a closeStream replies 0.
C3_DeactivatedIsQuiet ==
    /\ (Dispatched(last, TCPREMOTE_DEACTIVATE_STREAM) /\ last.out = <<writeInteger(0)>>)
         => /\ \A t \in TIDs :
                  threads[t].conn = readInteger(last.req, 3)
                     => threads[t].pc = "done" /\ threads[t].npc \in {"none", "done"}
            /\ \A p \in TIDs :
                  pipes[p].allocs > 0 => pipes[p].frees = 1 /\ ~pipes[p].uaf
    /\ Dispatched(last, TCPREMOTE_CLOSE_STREAM)
         => last.out = <<writeInteger(0)>> \/ mainPc = "crashed"

\* C4: for any sequence of activateStream and deactivateStream requests a
\* data connection is driven by one dataPump: two dataPump threads are never
\* running on the same data connection at the same time.
C4_OnePumpPerConnection ==
    \A d \in DOMAIN s_connections : Cardinality(PumpsOn(d)) <= 1

\* C5: when an RPC connection is dropped, its data connections are closed and
\* erased, then the device is released and the RPC record erased: the drop
\* ends, and after it the registry holds neither the RPC record nor an id the
\* drop closed.
C5_DropRemovesAll ==
    Dropped(last) =>
        /\ mainPc # "spin"
        /\ last.fd \notin DOMAIN s_connections
        /\ Len(last.ops) >= 3
        /\ last.ops[Len(last.ops) - 1] = <<"unmake", last.fd>>
        /\ last.ops[Len(last.ops)] = <<"erase", last.fd>>
        /\ \A i \in 2..(Len(last.ops) - 2) :
              last.ops[i][2] \notin DOMAIN s_connections

\* C6: each dispatched request produces the reply of its tag once; a
\* setupStream writes exactly one integer, whether it succeeds or fails.
C6_SetupStreamOneReply ==
    Dispatched(last, TCPREMOTE_SETUP_STREAM) => Len(last.out) = 1

\* C7: if the first line read from a ready RPC connection is not the
\* sentinel, that step removes the RPC record and its data connections, every
\* other connection stays registered, and the main loop goes on polling.
C7_DesyncDropsOnlyThatConnection ==
    [][(last' # last /\ Desynced(last'))
         => /\ mainPc' = "poll"
            /\ s_connections' =
                 Erase(s_connections,
                       {last'.fd} \cup s_connections[last'.fd].dataIds)]_vars

\* C8: a request the client driver emits, such as getHardwareKey, is
\* dispatched by the server and answered with the device's value.
C8_ClientRequestAnswered ==
    (last.on = "rpc" /\ last.req = getHardwareKey) => last.out = <<"dummy-key">>

\* C9: for every number of channels and every nread, when the client receives
\* in one read the bytes the server interleaved for nread elements, readStream
\* returns nread, fills each channel buffer with the nread frames the device
\* produced for it, reads no byte past the received ones and writes no byte
\* past nread frames per channel.
C9_ReadStreamRoundTrip ==
    xfer.stage = "done" =>
        /\ xfer.ret = xfer.nread
        /\ xfer.out = xfer.buffs
        /\ xfer.soff <= Len(xfer.wire)
        /\ xfer.boff <= xfer.nread * xfer.fSize

\* C10: while a stream is active the dataPump never waits on the jitter pipe,
\* in the generic path and in the direct-buffer path alike.
C10_PumpNeverWaitsOnPipe ==
    \A t \in TIDs : threads[t].pc # "dwrite"

\* C11: the jitter pipe is FIFO: for any interleaving of writes and reads the
\* bytes the reads returned, in order, are a prefix of the bytes the writes
\* accepted, in order.
C11_PipeIsFifo ==
    /\ Len(ring.got) <= Len(ring.wrote)
    /\ ring.got = SubSeq(ring.wrote, 1, Len(ring.got))

\* the reads have returned bytes from both sides of the buffer's wrap-around
C11_Witness ==
    /\ Len(ring.got) > ring.pipe.len
    /\ ring.op = "read" /\ ring.rv > 0

\* C12: while every write and read uses one common item size, the bytes
\* accepted are the bytes returned plus the bytes held, and the bytes held and
\* the bytes returned are whole multiples of the item size.
C12_PipeConservesItems ==
    ~ring.mixed =>
        /\ Len(ring.wrote) = Len(ring.got) + PipeUsed(ring.pipe)
        /\ PipeUsed(ring.pipe) % ring.sz = 0
        /\ Len(ring.got) % ring.sz = 0

\* a write of two-byte items was accepted in part, and a read followed
C12_Witness ==
    /\ ~ring.mixed /\ ring.sz = 2
    /\ ring.op = "write" /\ ring.rv > 0 /\ ring.rv < ring.num
    /\ Len(ring.got) > 0

\* the last event was an accepted socket whose type bytes were read
Typed(l) == l.on = "listen" /\ l.req # <<>>

\* C13: setupStream replies with dataId only when dataId names a data
\* connection of the registry and the format is in the catalogue; otherwise
\* it replies with one negative code and calls no device operation.
C13_SetupStreamValidates ==
    Dispatched(last, TCPREMOTE_SETUP_STREAM) =>
        LET d == readInteger(last.req, 3)
            fmt == readString(last.req, 5)
            valid == /\ d \in DOMAIN s_connections
                     /\ s_connections[d].kind = "data"
                     /\ fmt \in FormatNames
        IN ~valid => /\ Len(last.out) = 1
                     /\ readInteger(last.out, 1) < 0
                     /\ last.ops = <<>>

\* C14: a setupStream that fails validation replies -1 for an unknown dataId
\* and -2 for an unknown format, and leaves the registry with every record's
\* fields and data-id set as it was, the RPC connection included.
C14_FailedSetupChangesNothing ==
    [][LET d == readInteger(last'.req, 3)
           fmt == readString(last'.req, 5)
       IN (/\ last' # last
           /\ Dispatched(last', TCPREMOTE_SETUP_STREAM)
           /\ (d \notin DOMAIN s_connections \/ fmt \notin FormatNames))
          => /\ last'.out = <<writeInteger(IF d \notin DOMAIN s_connections
                                           THEN 0 - 1 ELSE 0 - 2)>>
             /\ s_connections' = s_connections
             /\ mainPc' = "poll"]_vars

\* a setupStream with an unknown format was refused for a registered data
\* connection
C14_Witness ==
    /\ Dispatched(last, TCPREMOTE_SETUP_STREAM)
    /\ last.out = <<writeInteger(0 - 2)>>
    /\ readInteger(last.req, 3) \in DOMAIN s_connections
    /\ s_connections[readInteger(last.req, 3)].kind = "data"
    /\ last.fd \in DOMAIN s_connections

\* C15: every data id in an RPC connection's data-id set that names a data
\* connection names one whose stream handle is not null.
C15_RecordedStreamsAreOpen ==
    \A fd \in DOMAIN s_connections : \A d \in s_connections[fd].dataIds :
        (d \in DOMAIN s_connections /\ s_connections[d].kind = "data")
            => s_connections[d].stream = "open"

\* C16: once netPump's write to the data socket has failed, the dataPump of
\* that stream leaves its loop and returns (having deactivated the device
\* stream), without a deactivateStream request being needed.
C16_WriteFailureEndsPumping ==
    \A t \in TIDs :
        (threads[t].werr /\ ~threads[t].orphan)
            ~> (~Running(t) \/ threads[t].orphan)

\* C17: a failure confined to one accepted client (no type bytes, a log
\* handshake that cannot be read) leaves the main loop running.
C17_ClientFailureKeepsServing ==
    last.on = "listen" => mainPc # "exited"

C19_TypeDecidesKind ==
    (Typed(last) /\ mainPc = "poll") =>
        LET type == readInteger(last.req, 1)
            sock == last.fd
            reg == sock \in DOMAIN s_connections
        IN /\ type = TCPREMOTE_RPC_LOAD
                => (reg => s_connections[sock].kind = "rpc")
           /\ type \in {TCPREMOTE_DATA_SEND, TCPREMOTE_DATA_RECV}
                => (reg /\ s_connections[sock].kind = "data")
           /\ type = TCPREMOTE_LOG_STREAM
                => (reg /\ s_connections[sock].kind = "log")
           /\ type \notin {TCPREMOTE_RPC_LOAD, TCPREMOTE_DATA_SEND,
                           TCPREMOTE_DATA_RECV, TCPREMOTE_LOG_STREAM}
                => ~reg

\* a log connection was registered next to another connection
C19_Witness ==
    /\ Typed(last) /\ mainPc = "poll"
    /\ readInteger(last.req, 1) = TCPREMOTE_LOG_STREAM
    /\ last.fd \in DOMAIN s_connections
    /\ Cardinality(DOMAIN s_connections) = 2

\* C20: driver load: when the device is made, the accepted socket is
\* registered as an RPC connection that holds the device, the reply is that
\* positive id and the client's constructor succeeds; when it is not made,
\* the reply is negative, nothing is registered and the constructor fails.
C20_DriverLoad ==
    (Typed(last) /\ readInteger(last.req, 1) = TCPREMOTE_RPC_LOAD) =>
        LET sock == last.fd IN
        IF last.ops = << <<"make", sock>> >>
        THEN /\ sock \in DOMAIN s_connections
             /\ s_connections[sock].kind = "rpc"
             /\ s_connections[sock].dev = sock
             /\ last.out = <<writeInteger(sock)>>
             /\ sock > 0
             /\ Constructed(last.out)
        ELSE /\ sock \notin DOMAIN s_connections
             /\ Len(last.out) = 1
             /\ readInteger(last.out, 1) < 0
             /\ ~Constructed(last.out)

\* a driver load failed while another RPC connection stays registered
C20_Witness ==
    /\ Typed(last) /\ readInteger(last.req, 1) = TCPREMOTE_RPC_LOAD
    /\ last.ops = << <<"make", 0>> >>
    /\ \E f \in DOMAIN s_connections : s_connections[f].kind = "rpc"

\* record i was read from where record i's lines begin
ReadInPlace(i) ==
    rpc.got[i].from = (IF i = 1 THEN 0 ELSE rpc.sent[i - 1].end)

\* record i was read back as written, and the read ended where its lines end
RoundTrip(i) ==
    /\ rpc.got[i].val = rpc.sent[i].val
    /\ rpc.got[i].to = rpc.sent[i].end

\* C21: an integer written with writeInteger, or a newline-free string of
\* any length written with writeString, is read back by readInteger or
\* readString with the same value, and the read consumes exactly its line.
C21_ScalarRoundTrip ==
    \A i \in 1..Len(rpc.got) :
        (rpc.sent[i].type \in {"int", "str"} /\ ReadInPlace(i)) => RoundTrip(i)

\* C22: readKwargs applied to what writeKwargs(m) wrote returns m, and
\* readStrVector applied to an encoded string vector v returns v; the read
\* consumes exactly the lines of the record, terminator included.
C22_ListRoundTrip ==
    \A i \in 1..Len(rpc.got) :
        (rpc.sent[i].type \in {"kwargs", "strvector"} /\ ReadInPlace(i))
            => RoundTrip(i)

\* C23: readStream on a stream converts with the formats chosen at that
\* stream's own setupStream (wire = native when the native frame is smaller
\* than the requested one, else wire = requested), whatever other
\* setupStream calls the client device has seen since.
C23_ReadUsesOwnFormats ==
    \A k \in 1..Len(client.reads) :
        LET rd == client.reads[k]
            st == client.streams[rd.stream]
        IN /\ rd.fSize = FrameSize(st.wire)
           /\ rd.bSize = FrameSize(st.out)
           /\ rd.cnv = (IF st.out # st.wire THEN "convertCS16toCF32" ELSE "memcpy")

RECURSIVE SplitDirs(_)
\* the colon-separated directories of a $XDG_CONFIG_DIRS value, in order
SplitDirs(str) ==
    LET p == Find(str, ":") IN
    IF p = NPos THEN <<str>>
    ELSE <<SubSeq(str, 1, p)>> \o SplitDirs(SubSeq(str, p + 2, Len(str)))

\* the candidates in the order the search is specified
Candidates(c) ==
    (IF c.xdg THEN [k \in 1..Len(SplitDirs(c.env)) |-> SplitDirs(c.env)[k] \o <<ConfName>>]
     ELSE <<>>)
    \o <<EtcXdgConf>> \o (IF c.home THEN <<HomeConf>> ELSE <<>>)

FirstReadable(c) ==
    LET cand == Candidates(c)
        at == {k \in 1..Len(cand) : cand[k] \in c.readable}
    IN IF at = {} THEN <<>> ELSE cand[CHOOSE k \in at : \A j \in at : k <= j]

\* C24: getConfFile returns the first readable candidate in the order: the
\* colon-separated directories of $XDG_CONFIG_DIRS from first to last, then
\* /etc/xdg, then $HOME/.config; a readable file in a second or later
\* $XDG_CONFIG_DIRS directory is chosen when the earlier ones have none.
C24_FirstReadableCandidate ==
    conf.stage = "done" => conf.file = FirstReadable(conf)

\* C25: whenever a dataPump has left its pump loop, on either path, its final
\* write wakes netPump, netPump ends, the join completes, the pipe is freed
\* and the device stream is deactivated: the dataPump reaches its return
\* (unless the server has crashed, or netPump is held in a socket write).
C25_FinalWriteEndsPumps ==
    \A t \in TIDs :
        (threads[t].pc = "final")
            ~> (threads[t].pc = "done" \/ ~Alive \/ threads[t].orphan
                \/ threads[t].npc = "write")

\* C26: a device read that reports OVERFLOW never ends a dataPump's loop, on
\* the generic path and on the direct-buffer path alike; the loop ends only
\* on a zeroed pid or on another negative result.
C26_OverflowKeepsPumping ==
    \A t \in TIDs : threads[t].pc = "final" => threads[t].why \in {"stop", "error"}

\* C27: every time the non-blocking pipe write of dataPump accepts fewer
\* elements than the device read returned, a partly accepted batch included,
\* a data-loss warning is logged.
C27_ShortWriteWarns ==
    (ring.op = "write" /\ ~ring.block /\ ring.isz = ring.sz /\ ring.rv < ring.num)
        => ring.warn

\* C29: a non-blocking pipe write issued when less than one item of space is
\* free returns 0, not an error value, and leaves the pipe's contents and
\* indices unchanged; every other write returns the number of items it stored.
C29_NoRoomReturnsZero ==
    [][(ring'.op = "write" /\ ring' # ring) =>
          IF ~ring'.block /\ PipeAvail(ring.pipe) < ring'.isz
          THEN ring'.rv = 0 /\ ring'.pipe = ring.pipe
          ELSE ring'.rv * ring'.isz = PipeUsed(ring'.pipe) - PipeUsed(ring.pipe)]_vars

IsInteger(line) == \E n \in IntRange : Decimal[n] = line

\* the positions of the integer arguments of a request
IntArgs(tag) ==
    IF tag = TCPREMOTE_SETUP_STREAM THEN {3, 4}
    ELSE IF tag \in {TCPREMOTE_CLOSE_STREAM, TCPREMOTE_ACTIVATE_STREAM,
                     TCPREMOTE_DEACTIVATE_STREAM} THEN {3}
    ELSE {}

\* the last event was a request, begun with the sentinel, in which the tag or
\* an integer argument was missing (end of input) or not a number
Malformed(l) ==
    /\ l.on = "rpc"
    /\ readString(l.req, 1) = TCPREMOTE_RPC_SEP
    /\ \/ ~IsInteger(readString(l.req, 2))
       \/ \E i \in IntArgs(readInteger(l.req, 2)) : ~IsInteger(readString(l.req, i))

\* C28: when the server meets end of input or a non-integer line where the
\* tag or an integer argument of a request is expected, it drops that RPC
\* connection with its data streams and calls no device operation with a
\* substituted value.
C28_BadIntegerDrops ==
    (Malformed(last) /\ mainPc = "poll") => Dropped(last)

\* C30: whenever the main loop is polling, the worker thread handle of a data
\* connection (once it has been assigned) is non-zero if and only if a
\* dataPump for that connection is running: also after a failed thread
\* creation, after deactivateStream, and after a dataPump returned on its own.
C30_HandleIffActivated ==
    mainPc = "poll" =>
        \A d \in DOMAIN s_connections :
            (s_connections[d].kind = "data" /\ s_connections[d].pid # PidUnset)
                => ((s_connections[d].pid # 0) <=> (PumpsOn(d) # {}))

\* C31: no dataPump or netPump thread ever reads or iterates the connection
\* registry, the logging done by the worker included: a worker touches only
\* its own record.
C31_WorkersLeaveRegistryAlone ==
    \A t \in TIDs : handleLog(t) = {}

\* C35: dropping an RPC connection always terminates: the loop over the
\* connection's data-id set ends in every reachable state, also when an id of
\* the set is no longer in the registry.
C35_DropTerminates ==
    ~(mainPc = "spin" /\ last.on = "rpc"
      /\ \E d \in s_connections[last.fd].dataIds : d \notin DOMAIN s_connections)

\* C36: at every moment every id in an RPC connection's data-id set is the key
\* of a data connection in the registry, and no id is in the data-id sets of
\* two RPC connections.
C36_DataIdsNameOwnedStreams ==
    mainPc = "poll" =>
        /\ \A fd \in DOMAIN s_connections : \A d \in s_connections[fd].dataIds :
              d \in DOMAIN s_connections /\ s_connections[d].kind = "data"
        /\ \A f1, f2 \in DOMAIN s_connections :
              f1 # f2 => s_connections[f1].dataIds \cap s_connections[f2].dataIds = {}

NetTakes(t) ==
    piperead(ElemSize(Rec(t)), BUFSIZ \div ElemSize(Rec(t)),
             pipes[Rec(t).netPipe].pipe, TRUE).data

\* C37: every byte netPump writes to the data socket belongs to an element
\* obtained from a device read: the element of the final wake-up write is
\* never sent to the client, whatever made the dataPump leave its loop.
C37_DummyNeverSent ==
    [][\A t \in TIDs :
          (~threads[t].orphan /\ threads[t].npc = "read" /\ threads'[t].npc = "write")
              => \A k \in 1..Len(NetTakes(t)) : NetTakes(t)[k] # DummyByte]_vars

\* C40: in every reachable state of a jitter pipe of length len both indices
\* lie in 0..len-1 and at most len - 1 bytes are held; the bytes held are the
\* accepted bytes that were not yet returned, in their order: no write
\* overwrites unread bytes and no read returns bytes that were not written.
C40_PipeIndicesAndCapacity ==
    ring.op # "none" =>
        LET pipe == ring.pipe IN
        /\ pipe.in \in 0..(pipe.len - 1)
        /\ pipe.out \in 0..(pipe.len - 1)
        /\ PipeUsed(pipe) <= pipe.len - 1
        /\ PipeUsed(pipe) = Len(ring.wrote) - Len(ring.got)
        /\ \A k \in 1..PipeUsed(pipe) :
              pipe.buf[(pipe.out + k - 1) % pipe.len] = ring.wrote[Len(ring.got) + k]

\* the pipe holds len - 1 bytes that lie across the end of the buffer
C40_Witness ==
    /\ ring.op = "write" /\ ring.rv > 0
    /\ PipeUsed(ring.pipe) = ring.pipe.len - 1
    /\ ring.pipe.in < ring.pipe.out
    /\ Len(ring.got) > 0

\* C33: when the wire format differs from the requested one (CS8 to CS16, CS8
\* to CF32, CS16 to CF32), the conversion of each frame reads exactly
\* frameSize(wire) bytes of the received block at the frame's place and writes
\* exactly frameSize(requested) bytes at the frame's offset of the channel
\* buffer.
C33_ConversionStaysInFrame ==
    (client.io.op = "conv" /\ client.io.stage = "done") =>
        \A k \in 1..Len(client.io.frames) :
            LET fr == client.io.frames[k] IN
            /\ fr.rd = fr.soff..(fr.soff + FrameSize(client.io.fmtwire) - 1)
            /\ fr.wr = fr.boff..(fr.boff + FrameSize(client.io.fmtout) - 1)

\* C34: writeStream with numElems elements writes to the data socket, for
\* i = 0 .. numElems-1 in order, the frame of element i of every channel in
\* channel order, stores nothing outside its one-element staging buffer and
\* returns numElems.
C34_WriteStreamSendsEachElement ==
    (client.io.op = "write" /\ client.io.stage # "start") =>
        LET io == client.io IN
        /\ io.stage = "done"
        /\ io.ret = io.numElems
        /\ io.sent = Interleave(TxBuffs(io.numChans, io.numElems, io.fSize),
                                io.numElems, io.numChans, io.fSize)
        /\ io.noff <= io.fSize * io.numChans

\* the bytes of channel c in a byte stream of interleaved frames
ChanOf(wire, c, fSize, numChans) ==
    [j \in 1..(Len(wire) \div numChans) |->
        wire[(((j - 1) \div fSize) * numChans + (c - 1)) * fSize + ((j - 1) % fSize) + 1]]

\* C38: readStream keeps element alignment for every segmentation of the data
\* socket's byte stream: over successive calls the bytes delivered to each
\* channel are the bytes of that channel on the wire, none lost, duplicated
\* or moved to another channel.
C38_SegmentedReadsStayAligned ==
    client.io.op = "seg" =>
        \A c \in 1..client.io.numChans :
            LET io == client.io
                chan == ChanOf(io.wire, c, io.fSize, io.numChans)
            IN /\ Len(io.out[c]) <= Len(chan)
               /\ io.out[c] = SubSeq(chan, 1, Len(io.out[c]))
               /\ io.stage = "done" => io.out[c] = chan

\* C39: listSampleRates terminates with a finite list for every range list
\* the server can return, ranges with step 0 and minimum <= maximum included.
C39_ListSampleRatesEnds ==
    (client.io.op = "rates") ~> (client.io.stage = "done")

====
